---- MODULE Spec2Model ----
(***************************************************************************)
(* Model of the trading bot: the layered configuration resolver           *)
(* (src/config.py, class ConfigManager), the logger singleton              *)
(* (src/logger.py), the order methods of the exchange client wrapper       *)
(* (src/bot.py), the input validators (src/utils.py) and the command line  *)
(* (src/cli.py), each with a specification of its own.                     *)
(*                                                                         *)
(* Python values are tagged records [t |-> tag, v |-> payload]:            *)
(*   bool  : v is TRUE/FALSE          int   : v is the integer             *)
(*   float : v is the value in thousandths (0.001 is 1, 2.0 is 2000)       *)
(*   inf   : v is the sign (1, -1)    nan   : float('nan')                 *)
(*   str   : v is the sequence of the string's characters                  *)
(*   list  : v is a sequence of values                                     *)
(*   dict  : v is a function from keys (TLA+ strings) to values            *)
(*   none  : Python's None                                                 *)
(*   ref   : v names a section; the entry IS the dict object held at       *)
(*           self.defaults[v] (the two top-level dicts share the object)   *)
(* Strings that the code inspects character by character (environment      *)
(* values, dotenv lines, dotted paths, string values of the tree) are      *)
(* sequences of one-character strings; dict keys and environment variable  *)
(* names are TLA+ strings, obtained from character sequences with Str.     *)
(***************************************************************************)
EXTENDS Integers, Sequences, FiniteSets, TLC

VARIABLES
    pc,          \* "none": no ConfigManager yet; "ready": __init__ returned
    defaults,    \* self.defaults: section -> dict value
    config,      \* self.config: top-level dict, key -> value or ref
    environ,     \* os.environ: variable name -> character sequence
    config_file, \* the file at self.config_file
    env_file,    \* the file at self.env_file
    disk,        \* the other files the resolver writes
    ops,         \* number of state-changing steps taken on the instance
    last,        \* observation of the last operation
    cli,         \* the command line process: position, self.bot, locals
    logger,      \* logger.py's module state: _logger_instance
    events       \* what the running handler has done so far, in order

vars == <<pc, defaults, config, environ, config_file, env_file, disk, ops, last,
          cli, logger, events>>

----------------------------------------------------------------------------
(* Values *)

BoolV(b)  == [t |-> "bool", v |-> b]
IntV(n)   == [t |-> "int", v |-> n]
FloatV(m) == [t |-> "float", v |-> m]
InfV(s)   == [t |-> "inf", v |-> s]
NanV      == [t |-> "nan", v |-> 0]
StrV(s)   == [t |-> "str", v |-> s]
ListV(l)  == [t |-> "list", v |-> l]
DictV(f)  == [t |-> "dict", v |-> f]
NoneV     == [t |-> "none", v |-> 0]
RefV(s)   == [t |-> "ref", v |-> s]
\* an instance of object: no items(), no copy(), not subscriptable, and
\* nothing json.dump can serialise
ObjV      == [t |-> "object", v |-> 0]

\* the outcome of a step that raised exception e instead of returning
Raise(e)   == [t |-> "raise", v |-> e]
IsRaise(x) == x.t = "raise"

EmptyDict == <<>>

IsDict(x) == x.t = "dict"

\* f with key k bound to x (a dict item assignment)
Put(f, k, x) == [j \in (DOMAIN f) \cup {k} |-> IF j = k THEN x ELSE f[j]]

\* f without the keys in ks
Without(f, ks) == [j \in (DOMAIN f) \ ks |-> f[j]]

----------------------------------------------------------------------------
(* Characters and strings *)

UpperChars == <<"A","B","C","D","E","F","G","H","I","J","K","L","M",
                "N","O","P","Q","R","S","T","U","V","W","X","Y","Z">>
LowerChars == <<"a","b","c","d","e","f","g","h","i","j","k","l","m",
                "n","o","p","q","r","s","t","u","v","w","x","y","z">>
Digits     == <<"0","1","2","3","4","5","6","7","8","9">>

IsDigit(c) == \E i \in 1..10 : Digits[i] = c
DigitVal(c) == (CHOOSE i \in 1..10 : Digits[i] = c) - 1

lower_char(c) ==
    IF \E i \in 1..26 : UpperChars[i] = c
    THEN LowerChars[CHOOSE i \in 1..26 : UpperChars[i] = c]
    ELSE c

upper_char(c) ==
    IF \E i \in 1..26 : LowerChars[i] = c
    THEN UpperChars[CHOOSE i \in 1..26 : LowerChars[i] = c]
    ELSE c

\* str.lower() and str.upper()
lower(s) == [i \in 1..Len(s) |-> lower_char(s[i])]
upper(s) == [i \in 1..Len(s) |-> upper_char(s[i])]

\* the TLA+ string spelled by a character sequence
RECURSIVE Str(_)
Str(s) == IF s = <<>> THEN "" ELSE Head(s) \o Str(Tail(s))

\* str.strip(): leading and trailing whitespace removed
WhiteSpace == {" ", "\t", "\n", "\r"}
RECURSIVE lstrip(_)
lstrip(s) == IF s # <<>> /\ Head(s) \in WhiteSpace THEN lstrip(Tail(s)) ELSE s
RECURSIVE rstrip(_)
rstrip(s) ==
    IF s # <<>> /\ s[Len(s)] \in WhiteSpace
    THEN rstrip(SubSeq(s, 1, Len(s) - 1))
    ELSE s
strip(s) == rstrip(lstrip(s))

\* c in s, for a character c
HasChar(s, c) == \E i \in 1..Len(s) : s[i] = c

\* index of the first occurrence of c in s (s contains c)
FirstIndex(s, c) == CHOOSE i \in 1..Len(s) : s[i] = c /\ \A j \in 1..(i - 1) : s[j] # c

\* str.split(sep): always at least one piece
RECURSIVE split(_, _)
split(s, sep) ==
    IF HasChar(s, sep)
    THEN <<SubSeq(s, 1, FirstIndex(s, sep) - 1)>>
         \o split(SubSeq(s, FirstIndex(s, sep) + 1, Len(s)), sep)
    ELSE <<s>>

\* str.split(sep, 1) of a string that contains sep
split_first(s, sep) ==
    <<SubSeq(s, 1, FirstIndex(s, sep) - 1), SubSeq(s, FirstIndex(s, sep) + 1, Len(s))>>

----------------------------------------------------------------------------
(* Numeric literals, as int() and float() read them.  Digit-group          *)
(* underscores and exponent notation are outside the modelled alphabet;    *)
(* fractions keep three digits, which is exact for every modelled input.   *)

AllDigits(s) == s # <<>> /\ \A i \in 1..Len(s) : IsDigit(s[i])

RECURSIVE DigitsValue(_)
DigitsValue(s) ==
    IF s = <<>> THEN 0 ELSE 10 * DigitsValue(SubSeq(s, 1, Len(s) - 1)) + DigitVal(s[Len(s)])

HasSign(s) == s # <<>> /\ Head(s) \in {"+", "-"}
Unsigned(s) == IF HasSign(s) THEN Tail(s) ELSE s
SignOf(s) == IF s # <<>> /\ Head(s) = "-" THEN -1 ELSE 1

\* int(s) does not raise ValueError
IsIntLiteral(s) == AllDigits(Unsigned(strip(s)))
IntOf(s) == SignOf(strip(s)) * DigitsValue(Unsigned(strip(s)))

IsDecimal(u) ==
    IF HasChar(u, ".")
    THEN LET parts == split_first(u, ".")
         IN  /\ parts[1] = <<>> \/ AllDigits(parts[1])
             /\ parts[2] = <<>> \/ AllDigits(parts[2])
             /\ parts[1] # <<>> \/ parts[2] # <<>>
    ELSE AllDigits(u)

\* the first three fraction digits, as thousandths
Thousandths(f) ==
    LET d(i) == IF i <= Len(f) THEN DigitVal(f[i]) ELSE 0
    IN  100 * d(1) + 10 * d(2) + d(3)

DecimalValue(u) ==
    IF HasChar(u, ".")
    THEN LET parts == split_first(u, ".")
         IN  1000 * DigitsValue(parts[1]) + Thousandths(parts[2])
    ELSE 1000 * DigitsValue(u)

IsInfWord(u) == lower(u) \in {<<"i","n","f">>, <<"i","n","f","i","n","i","t","y">>}
IsNanWord(u) == lower(u) = <<"n","a","n">>

\* float(s) does not raise ValueError
IsFloatLiteral(s) ==
    LET u == Unsigned(strip(s)) IN IsDecimal(u) \/ IsInfWord(u) \/ IsNanWord(u)

FloatOf(s) ==
    LET u == Unsigned(strip(s))
    IN  IF IsNanWord(u) THEN NanV
        ELSE IF IsInfWord(u) THEN InfV(SignOf(strip(s)))
        ELSE FloatV(SignOf(strip(s)) * DecimalValue(u))

TrueWord  == <<"t","r","u","e">>
FalseWord == <<"f","a","l","s","e">>

\* a conversion that tries float() before int()
_convert_env_value_float_first(value) ==
    IF lower(value) \in {TrueWord, FalseWord}
    THEN BoolV(lower(value) = TrueWord)
    ELSE IF IsFloatLiteral(value)
    THEN FloatOf(value)
    ELSE IF ~HasChar(value, ".") /\ IsIntLiteral(value)
    THEN IntV(IntOf(value))
    ELSE StrV(value)

\* ConfigManager._convert_env_value
_convert_env_value(value) ==
    IF lower(value) \in {TrueWord, FalseWord}
    THEN BoolV(lower(value) = TrueWord)
    ELSE IF ~HasChar(value, ".") /\ IsIntLiteral(value)
    THEN IntV(IntOf(value))
    ELSE IF IsFloatLiteral(value)
    THEN FloatOf(value)
    ELSE StrV(value)

----------------------------------------------------------------------------
(* String constants of the source *)

S_BTCUSDT == <<"B","T","C","U","S","D","T">>
S_ETHUSDT == <<"E","T","H","U","S","D","T">>
S_ADAUSDT == <<"A","D","A","U","S","D","T">>
S_DOTUSDT == <<"D","O","T","U","S","D","T">>
S_LIMIT   == <<"L","I","M","I","T">>
S_INFO    == <<"I","N","F","O">>
S_DEBUG   == <<"D","E","B","U","G">>
S_WARNING == <<"W","A","R","N","I","N","G">>
S_ERROR   == <<"E","R","R","O","R">>
S_CRITICAL == <<"C","R","I","T","I","C","A","L">>

Sections == {"api", "trading", "risk_management", "logging", "ui"}

\* ConfigManager._get_default_config: a fresh tree on every call
_get_default_config ==
    [api |-> DictV([testnet |-> BoolV(TRUE),
                    timeout |-> IntV(30),
                    retry_attempts |-> IntV(3),
                    rate_limit_buffer |-> FloatV(100)]),
     trading |-> DictV([default_symbol |-> StrV(S_BTCUSDT),
                        max_quantity |-> IntV(1000),
                        min_quantity |-> FloatV(1),
                        supported_symbols |->
                            ListV(<<StrV(S_BTCUSDT), StrV(S_ETHUSDT),
                                    StrV(S_ADAUSDT), StrV(S_DOTUSDT)>>),
                        default_order_type |-> StrV(S_LIMIT)]),
     risk_management |-> DictV([max_daily_trades |-> IntV(50),
                                max_position_size |-> IntV(100),
                                enable_stop_loss |-> BoolV(TRUE),
                                stop_loss_percentage |-> FloatV(2000),
                                take_profit_percentage |-> FloatV(5000)]),
     logging |-> DictV([log_level |-> StrV(S_INFO),
                        max_log_size |-> IntV(10 * 1024 * 1024),
                        log_backup_count |-> IntV(5),
                        enable_trade_logging |-> BoolV(TRUE),
                        enable_error_logging |-> BoolV(TRUE)]),
     ui |-> DictV([show_confirmations |-> BoolV(TRUE),
                   auto_refresh_account |-> BoolV(FALSE),
                   display_precision |-> IntV(8)])]

\* the table env_mappings of _load_from_env_vars, in its iteration order
env_mappings ==
    << <<"BINANCE_API_KEY", "api", "key">>,
       <<"BINANCE_API_SECRET", "api", "secret">>,
       <<"BINANCE_TESTNET", "api", "testnet">>,
       <<"API_TIMEOUT", "api", "timeout">>,
       <<"API_RETRY_ATTEMPTS", "api", "retry_attempts">>,
       <<"DEFAULT_SYMBOL", "trading", "default_symbol">>,
       <<"MAX_QUANTITY", "trading", "max_quantity">>,
       <<"MIN_QUANTITY", "trading", "min_quantity">>,
       <<"DEFAULT_ORDER_TYPE", "trading", "default_order_type">>,
       <<"MAX_DAILY_TRADES", "risk_management", "max_daily_trades">>,
       <<"MAX_POSITION_SIZE", "risk_management", "max_position_size">>,
       <<"ENABLE_STOP_LOSS", "risk_management", "enable_stop_loss">>,
       <<"STOP_LOSS_PERCENTAGE", "risk_management", "stop_loss_percentage">>,
       <<"TAKE_PROFIT_PERCENTAGE", "risk_management", "take_profit_percentage">>,
       <<"LOG_LEVEL", "logging", "log_level">>,
       <<"MAX_LOG_SIZE", "logging", "max_log_size">>,
       <<"LOG_BACKUP_COUNT", "logging", "log_backup_count">>,
       <<"SHOW_CONFIRMATIONS", "ui", "show_confirmations">>,
       <<"AUTO_REFRESH_ACCOUNT", "ui", "auto_refresh_account">>,
       <<"DISPLAY_PRECISION", "ui", "display_precision">> >>

----------------------------------------------------------------------------
(* The tree.  self.config is a top-level dict whose entries are values or  *)
(* references to the section objects of self.defaults; Tree is the dict    *)
(* a reader of self.config sees.                                           *)

Tree(cfg, dfl) ==
    [k \in DOMAIN cfg |-> IF cfg[k].t = "ref" THEN dfl[cfg[k].v] ELSE cfg[k]]

\* dict.copy() of self.defaults: a new top-level dict holding the same
\* section objects
shallow_copy(dfl) == [s \in DOMAIN dfl |-> RefV(s)]

\* the loop of get: current = current[key] for each key; a dict raises
\* KeyError for a missing key, every other value raises TypeError for a
\* string subscript
RECURSIVE Descend(_, _)
Descend(current, keys) ==
    IF keys = <<>> THEN current
    ELSE IF ~IsDict(current) THEN Raise("TypeError")
    ELSE IF Str(Head(keys)) \notin DOMAIN current.v THEN Raise("KeyError")
    ELSE Descend(current.v[Str(Head(keys))], Tail(keys))

\* an except clause that names KeyError only
GetCaught_KeyErrorOnly == {"KeyError"}

\* the exceptions the except clause of get names
GetCaught == {"KeyError", "TypeError"}

\* ConfigManager.get on the tree: [exc, ret]
get(tree, path, default) ==
    LET r == Descend(DictV(tree), split(path, "."))
    IN  IF ~IsRaise(r) THEN [exc |-> "", ret |-> r]
        ELSE IF r.v \in GetCaught THEN [exc |-> "", ret |-> default]
        ELSE [exc |-> r.v, ret |-> NoneV]

\* the body of set from an object current on: the object after the
\* assignment, or the exception.  `key not in current`, `current[key] = {}`
\* and `current[key]` raise TypeError on everything but a dict (on a string
\* or a list the membership test passes and the subscript raises).
RECURSIVE set_in(_, _, _)
set_in(current, keys, value) ==
    IF ~IsDict(current) THEN Raise("TypeError")
    ELSE IF Len(keys) = 1 THEN DictV(Put(current.v, Str(keys[1]), value))
    ELSE LET k == Str(Head(keys))
             child == IF k \in DOMAIN current.v THEN current.v[k] ELSE DictV(EmptyDict)
             r == set_in(child, Tail(keys), value)
         IN  IF IsRaise(r) THEN r ELSE DictV(Put(current.v, k, r))

\* ConfigManager.set: [exc, config, defaults].  A first segment that holds
\* a section object of self.defaults writes into that object.
set(cfg, dfl, path, value) ==
    LET keys == split(path, ".")
        k == Str(Head(keys))
    IN  IF Len(keys) = 1
        THEN [exc |-> "", config |-> Put(cfg, k, value), defaults |-> dfl]
        ELSE IF k \in DOMAIN cfg /\ cfg[k].t = "ref"
        THEN LET r == set_in(dfl[cfg[k].v], Tail(keys), value)
             IN  IF IsRaise(r)
                 THEN [exc |-> r.v, config |-> cfg, defaults |-> dfl]
                 ELSE [exc |-> "", config |-> cfg,
                       defaults |-> [dfl EXCEPT ![cfg[k].v] = r]]
        ELSE LET child == IF k \in DOMAIN cfg THEN cfg[k] ELSE DictV(EmptyDict)
                 r == set_in(child, Tail(keys), value)
             IN  IF IsRaise(r)
                 THEN [exc |-> r.v, config |-> cfg, defaults |-> dfl]
                 ELSE [exc |-> "", config |-> Put(cfg, k, r), defaults |-> dfl]

\* a merge that never descends: dict.update
merges_recursively_never(base_value, update_value) == FALSE

\* isinstance(base[key], dict) and isinstance(value, dict)
merges_recursively(base_value, update_value) ==
    IsDict(base_value) /\ IsDict(update_value)

\* ConfigManager._deep_merge on dict contents: base after the call
RECURSIVE _deep_merge(_, _)
_deep_merge(base, update) ==
    [k \in (DOMAIN base) \cup (DOMAIN update) |->
        IF k \notin DOMAIN update THEN base[k]
        ELSE IF k \in DOMAIN base /\ merges_recursively(base[k], update[k])
        THEN DictV(_deep_merge(base[k].v, update[k].v))
        ELSE update[k]]

\* _deep_merge(self.config, update): [config, defaults].  An entry of
\* self.config that is a section object of self.defaults is merged in place.
merge_config(cfg, dfl, update) ==
    LET shared(k) == k \in DOMAIN cfg /\ cfg[k].t = "ref"
    IN  [config |->
            [k \in (DOMAIN cfg) \cup (DOMAIN update) |->
                IF k \notin DOMAIN update THEN cfg[k]
                ELSE IF shared(k) /\ IsDict(update[k]) THEN cfg[k]
                ELSE IF k \in DOMAIN cfg /\ IsDict(cfg[k]) /\ IsDict(update[k])
                THEN DictV(_deep_merge(cfg[k].v, update[k].v))
                ELSE update[k]],
         defaults |->
            [s \in DOMAIN dfl |->
                IF \E k \in DOMAIN update :
                       shared(k) /\ cfg[k].v = s /\ IsDict(update[k])
                THEN LET k == CHOOSE k \in DOMAIN update :
                                  shared(k) /\ cfg[k].v = s /\ IsDict(update[k])
                     IN  DictV(_deep_merge(dfl[s].v, update[k].v))
                ELSE dfl[s]]]

----------------------------------------------------------------------------
(* Dotted paths the source passes to get *)

P_api_key ==
    <<"a","p","i",".","k","e","y">>
P_api_secret ==
    <<"a","p","i",".","s","e","c","r","e","t">>
P_api_testnet ==
    <<"a","p","i",".","t","e","s","t","n","e","t">>
P_api_timeout ==
    <<"a","p","i",".","t","i","m","e","o","u","t">>
P_risk_management_max_daily_trades ==
    <<"r","i","s","k","_","m","a","n","a","g","e","m","e","n","t",".","m","a","x","_","d","a","i","l","y","_","t","r","a","d","e","s">>
P_risk_management_max_position_size ==
    <<"r","i","s","k","_","m","a","n","a","g","e","m","e","n","t",".","m","a","x","_","p","o","s","i","t","i","o","n","_","s","i","z","e">>
P_trading_max_quantity ==
    <<"t","r","a","d","i","n","g",".","m","a","x","_","q","u","a","n","t","i","t","y">>
P_trading_min_quantity ==
    <<"t","r","a","d","i","n","g",".","m","i","n","_","q","u","a","n","t","i","t","y">>
P_trading_default_symbol ==
    <<"t","r","a","d","i","n","g",".","d","e","f","a","u","l","t","_","s","y","m","b","o","l">>
P_trading_supported_symbols ==
    <<"t","r","a","d","i","n","g",".","s","u","p","p","o","r","t","e","d","_","s","y","m","b","o","l","s">>
P_logging_log_level ==
    <<"l","o","g","g","i","n","g",".","l","o","g","_","l","e","v","e","l">>

----------------------------------------------------------------------------
(* Files.  A file is absent, holds content json.load rejects (garbage),    *)
(* holds a JSON document (a value), or holds text lines.                   *)

AbsentFile   == [t |-> "absent", v |-> 0]
GarbageFile  == [t |-> "garbage", v |-> 0]
LinesFile(l) == [t |-> "lines", v |-> l]

\* ConfigManager._load_from_json: [config, defaults].  json.load failing
\* and a document without .items() are caught by the except clause.
_load_from_json(cfg, dfl, file) ==
    IF file.t = "absent" THEN [config |-> cfg, defaults |-> dfl]
    ELSE IF file.t = "garbage" THEN [config |-> cfg, defaults |-> dfl]
    ELSE IF ~IsDict(file) THEN [config |-> cfg, defaults |-> dfl]
    ELSE merge_config(cfg, dfl, file.v)

\* the loop of _load_from_env_file over the lines; os.environ[''] = value
\* raises, which ends the loop inside the try block
RECURSIVE env_file_lines(_, _)
env_file_lines(env, lines) ==
    IF lines = <<>> THEN env
    ELSE LET line == strip(Head(lines))
         IN  IF line # <<>> /\ Head(line) # "#" /\ HasChar(line, "=")
             THEN LET kv == split_first(line, "=")
                      key == strip(kv[1])
                      value == strip(kv[2])
                  IN  IF key = <<>> THEN env
                      ELSE env_file_lines(Put(env, Str(key), value), Tail(lines))
             ELSE env_file_lines(env, Tail(lines))

\* ConfigManager._load_from_env_file: the process environment afterwards
_load_from_env_file(env, file) ==
    IF file.t = "lines" THEN env_file_lines(env, file.v) ELSE env

\* the loop of _load_from_env_vars from entry i of the table on:
\* [exc, config, defaults].  self.config[section][config_key] = value
\* raises TypeError when the section entry is not a dict.
RECURSIVE env_vars_from(_, _, _, _)
env_vars_from(cfg, dfl, env, i) ==
    IF i > Len(env_mappings) THEN [exc |-> "", config |-> cfg, defaults |-> dfl]
    ELSE LET env_key == env_mappings[i][1]
             section == env_mappings[i][2]
             config_key == env_mappings[i][3]
         IN  IF env_key \notin DOMAIN env THEN env_vars_from(cfg, dfl, env, i + 1)
             ELSE LET converted_value == _convert_env_value(env[env_key])
                      cfg1 == IF section \in DOMAIN cfg THEN cfg
                              ELSE Put(cfg, section, DictV(EmptyDict))
                  IN  IF cfg1[section].t = "ref"
                      THEN env_vars_from(cfg1,
                               [dfl EXCEPT ![cfg1[section].v] =
                                   DictV(Put(@.v, config_key, converted_value))],
                               env, i + 1)
                      ELSE IF IsDict(cfg1[section])
                      THEN env_vars_from(
                               Put(cfg1, section,
                                   DictV(Put(cfg1[section].v, config_key, converted_value))),
                               dfl, env, i + 1)
                      ELSE [exc |-> "TypeError", config |-> cfg1, defaults |-> dfl]

\* a loop that also copies every variable of the environment into the tree
_load_from_env_vars_whole_environment(cfg, dfl, env) ==
    LET r == env_vars_from(cfg, dfl, env, 1)
    IN  [r EXCEPT !.config = Put(@, "environ", DictV([n \in DOMAIN env |-> StrV(env[n])]))]

\* ConfigManager._load_from_env_vars
_load_from_env_vars(cfg, dfl, env) == env_vars_from(cfg, dfl, env, 1)

\* ConfigManager.load_config: [exc, config, defaults, environ]
load_config(dfl, env, cfile, efile) ==
    LET copied == shallow_copy(dfl)
        j == _load_from_json(copied, dfl, cfile)
        env1 == _load_from_env_file(env, efile)
        e == _load_from_env_vars(j.config, j.defaults, env1)
    IN  [exc |-> e.exc, config |-> e.config, defaults |-> e.defaults, environ |-> env1]

----------------------------------------------------------------------------
(* Export and validation *)

\* the values that have .copy(): dict and list
HasCopy(x) == x.t \in {"dict", "list"}

\* ConfigManager._create_safe_config on the tree: the dict, or the
\* AttributeError of values.items() / values.copy()
_create_safe_config(tree) ==
    IF \E section \in DOMAIN tree :
           \/ section = "api" /\ ~IsDict(tree[section])
           \/ section # "api" /\ ~HasCopy(tree[section])
    THEN Raise("AttributeError")
    ELSE DictV([section \in DOMAIN tree |->
                   IF section = "api"
                   THEN DictV(Without(tree[section].v, {"key", "secret"}))
                   ELSE tree[section]])

\* bool(x)
Truthy(x) ==
    CASE x.t = "none" -> FALSE
      [] x.t = "bool" -> x.v
      [] x.t \in {"int", "float"} -> x.v # 0
      [] x.t \in {"inf", "nan"} -> TRUE
      [] x.t \in {"str", "list"} -> x.v # <<>>
      [] x.t = "dict" -> DOMAIN x.v # {}

\* isinstance(x, (int, float)): bool is a subclass of int
IsIntOrFloat(x) == x.t \in {"int", "float", "inf", "nan", "bool"}

\* x <= 0 for an instance of int or float
LeqZero(x) ==
    CASE x.t \in {"int", "float"} -> x.v <= 0
      [] x.t = "bool" -> ~x.v
      [] x.t = "inf" -> x.v < 0
      [] x.t = "nan" -> FALSE

\* ConfigManager.get_api_credentials raises ValueError
CredentialsMissing(tree) ==
    \/ ~Truthy(get(tree, P_api_key, NoneV).ret)
    \/ ~Truthy(get(tree, P_api_secret, NoneV).ret)

\* ConfigManager.get_risk_limits, in the order of the dict it builds
get_risk_limits(tree) ==
    << <<"max_daily_trades", get(tree, P_risk_management_max_daily_trades, IntV(50)).ret>>,
       <<"max_position_size", get(tree, P_risk_management_max_position_size, IntV(100)).ret>>,
       <<"max_quantity", get(tree, P_trading_max_quantity, IntV(1000)).ret>>,
       <<"min_quantity", get(tree, P_trading_min_quantity, FloatV(1)).ret>> >>

LogLevels == {S_DEBUG, S_INFO, S_WARNING, S_ERROR, S_CRITICAL}

LimitBad(value) == ~IsIntOrFloat(value) \/ LeqZero(value)

\* the loop over limits.items() from entry i on: the error it logs, or <<>>
RECURSIVE limits_loop(_, _)
limits_loop(limits, i) ==
    IF i > Len(limits) THEN <<>>
    ELSE IF LimitBad(limits[i][2]) THEN <<"Invalid " \o limits[i][1]>>
    ELSE limits_loop(limits, i + 1)

\* exceptions that derive from BaseException and not from Exception
BaseOnly == {"KeyboardInterrupt", "SystemExit"}

\* isinstance(e, cls) for an exception e the model raises: every one of
\* them but those of BaseOnly is a subclass of Exception
IsInstance(e, cls) == cls = e \/ (cls = "Exception" /\ e \notin BaseOnly)

\* the first except clause of handlers that matches e, 0 when none does
Handler(handlers, e) ==
    IF \E i \in 1..Len(handlers) : IsInstance(e, handlers[i][1])
    THEN CHOOSE i \in 1..Len(handlers) :
             /\ IsInstance(e, handlers[i][1])
             /\ \A j \in 1..(i - 1) : ~IsInstance(e, handlers[j][1])
    ELSE 0

\* the try block of validate_config: [exc, ret, diag], diag the logged
\* errors.  get_api_credentials raises ValueError; log_level.upper() raises
\* AttributeError on anything but a string.
validate_config_try(tree) ==
    LET limit_error == limits_loop(get_risk_limits(tree), 1)
        default_symbol == get(tree, P_trading_default_symbol, StrV(S_BTCUSDT)).ret
        log_level == get(tree, P_logging_log_level, StrV(S_INFO)).ret
    IN  IF CredentialsMissing(tree)
        THEN [exc |-> "ValueError", ret |-> NoneV, diag |-> <<>>]
        ELSE IF limit_error # <<>>
        THEN [exc |-> "", ret |-> BoolV(FALSE), diag |-> limit_error]
        ELSE IF default_symbol.t # "str" \/ Len(default_symbol.v) < 3
        THEN [exc |-> "", ret |-> BoolV(FALSE), diag |-> <<"Invalid default symbol">>]
        ELSE IF log_level.t # "str"
        THEN [exc |-> "AttributeError", ret |-> NoneV, diag |-> <<>>]
        ELSE IF upper(log_level.v) \notin LogLevels
        THEN [exc |-> "", ret |-> BoolV(FALSE), diag |-> <<"Invalid log level">>]
        ELSE [exc |-> "", ret |-> BoolV(TRUE), diag |-> <<>>]

\* except clauses that stop at ValueError
validate_config_handlers_ValueErrorOnly ==
    << <<"ValueError", "Configuration validation failed">> >>

\* the except clauses of validate_config, in order, with the error each logs
validate_config_handlers ==
    << <<"ValueError", "Configuration validation failed">>,
       <<"Exception", "Unexpected error during validation">> >>

\* ConfigManager.validate_config: [exc, ret, diag].  An exception of the
\* try block that an except clause matches is logged and turned into False.
validate_config(tree) ==
    LET r == validate_config_try(tree)
        h == Handler(validate_config_handlers, r.exc)
    IN  IF r.exc = "" THEN r
        ELSE IF h = 0 THEN r
        ELSE [exc |-> "", ret |-> BoolV(FALSE), diag |-> <<validate_config_handlers[h][2]>>]

\* json.dump can serialise x
RECURSIVE Serialisable(_)
Serialisable(x) ==
    CASE x.t = "object" -> FALSE
      [] x.t = "list" -> \A i \in 1..Len(x.v) : Serialisable(x.v[i])
      [] x.t = "dict" -> \A k \in DOMAIN x.v : Serialisable(x.v[k])
      [] OTHER -> TRUE

\* the try block of save_config writing to a file that currently is old:
\* [exc, file].  _create_safe_config raises before the file is opened and
\* a failing open() (io_ok false) leaves the file as it was; json.dump
\* raises TypeError on a value it cannot serialise, after open(file_path,
\* 'w') has emptied the file and part of the document has been written.
save_config_try(tree, old, io_ok) ==
    LET safe_config == _create_safe_config(tree)
    IN  IF IsRaise(safe_config) THEN [exc |-> safe_config.v, file |-> old]
        ELSE IF ~io_ok THEN [exc |-> "OSError", file |-> old]
        ELSE IF ~Serialisable(safe_config) THEN [exc |-> "TypeError", file |-> GarbageFile]
        ELSE [exc |-> "", file |-> safe_config]

\* an except clause that names OSError only
save_config_handlers_OSErrorOnly ==
    << <<"OSError", "Error saving config">> >>

\* the except clause of save_config, with the error it logs
save_config_handlers ==
    << <<"Exception", "Error saving config">> >>

\* ConfigManager.save_config: [exc, file, diag]
save_config(tree, old, io_ok) ==
    LET r == save_config_try(tree, old, io_ok)
        h == Handler(save_config_handlers, r.exc)
    IN  IF r.exc = "" THEN [exc |-> "", file |-> r.file, diag |-> <<>>]
        ELSE IF h = 0 THEN [exc |-> r.exc, file |-> r.file, diag |-> <<>>]
        ELSE [exc |-> "", file |-> r.file, diag |-> <<save_config_handlers[h][2]>>]

\* the text create_example_files writes to .env.example
EnvExampleFile == [t |-> "text", v |-> "env_content"]

\* ConfigManager.create_example_files: the files afterwards.  Each file is
\* written only when it does not exist; config.example.json receives
\* json.dump(self.defaults).
create_example_files(dfl, d) ==
    [d EXCEPT !.env_example = IF @.t = "absent" THEN EnvExampleFile ELSE @,
              !.config_example = IF @.t = "absent" THEN DictV(dfl) ELSE @]

----------------------------------------------------------------------------
(* Bounds and inputs *)

\* state-changing steps (set, file writes, environment and input file
\* changes) taken on an instance per behaviour
MaxOps == 1

\* values of environment variables
V_abc     == <<"a","b","c">>
V_5       == <<"5">>
V_true    == <<"t","r","u","e">>
V_10_5    == <<"1","0",".","5">>
EnvValues == {V_abc, V_10_5}
EnvNames  == {"BINANCE_API_KEY", "MAX_QUANTITY"}

\* process environments at start
Env0 == <<>>
Env1 == [BINANCE_API_KEY |-> V_abc, BINANCE_API_SECRET |-> V_abc]
Env2 == [BINANCE_API_KEY |-> V_abc, BINANCE_API_SECRET |-> V_abc, MAX_QUANTITY |-> V_5]
InitEnvs == {Env0, Env1, Env2}

\* contents of the structured config file
Doc1 == DictV([trading |-> DictV([max_quantity |-> IntV(5)])])
Doc2 == DictV([api |-> IntV(5)])
Doc3 == DictV([api |-> DictV([key |-> StrV(V_abc), timeout |-> IntV(5)]),
               extra |-> DictV([a |-> IntV(1)])])
Doc4 == ListV(<<IntV(1)>>)
ConfigFiles == {AbsentFile, GarbageFile, Doc1, Doc2, Doc3, Doc4}

\* contents of the dotenv file
L_comment == <<"#"," ","M","A","X","_","Q","U","A","N","T","I","T","Y","=","9">>
L_foo     == <<"F","O","O","=","b","a","r","=","b","a","z">>
L_maxq    == <<" ","M","A","X","_","Q","U","A","N","T","I","T","Y"," ","="," ","7"," ">>
L_noeq    == <<"n","o","v","a","l","u","e">>
L_nokey   == <<"=","x">>
L_level   == <<"L","O","G","_","L","E","V","E","L","=","d","e","b","u","g">>
EnvFile1  == LinesFile(<<L_comment, <<>>, L_foo, L_maxq, L_noeq>>)
EnvFile2  == LinesFile(<<L_nokey, L_level>>)
EnvFiles  == {AbsentFile, EnvFile1, EnvFile2}

\* arguments of set
P_a_b_c   == <<"a",".","b",".","c">>
P_ui      == <<"u","i">>
P_api_testnet_x == <<"a","p","i",".","t","e","s","t","n","e","t",".","x">>
LoadSetPaths == {P_trading_max_quantity, P_api_key, P_ui}

NoFiles == [env_example |-> AbsentFile, config_example |-> AbsentFile, out |-> AbsentFile]

\* no command line process: the resolver is used on its own
NoCli == [pc |-> "none", bot |-> FALSE, order_type |-> "", order_params |-> <<>>,
          input |-> NoneV, status |-> NoneV, cause |-> ""]

\* logger.py line 267: _logger_instance = None, no TradingBotLogger made yet
NoLogger == [instance |-> NoneV, created |-> 0]

\* the observation an operation leaves
Obs(op, exc, ret, path, arg, diag) ==
    [op |-> op, exc |-> exc, ret |-> ret, path |-> path, arg |-> arg, diag |-> diag]

----------------------------------------------------------------------------
(* Operations *)

\* ConfigManager.__init__: a constructor that raises leaves no instance
Construct ==
    /\ pc = "none"
    /\ LET r == load_config(_get_default_config, environ, config_file, env_file)
       IN  /\ pc' = IF r.exc = "" THEN "ready" ELSE "none"
           /\ config' = IF r.exc = "" THEN r.config ELSE EmptyDict
           /\ defaults' = IF r.exc = "" THEN r.defaults ELSE _get_default_config
           /\ environ' = r.environ
           /\ last' = Obs("__init__", r.exc, NoneV, <<>>, NoneV, <<>>)
    /\ UNCHANGED <<config_file, env_file, disk, ops, cli, logger, events>>

\* load_config called again on the instance
LoadConfig ==
    /\ pc = "ready"
    /\ LET r == load_config(defaults, environ, config_file, env_file)
       IN  /\ config' = r.config
           /\ defaults' = r.defaults
           /\ environ' = r.environ
           /\ last' = Obs("load_config", r.exc, NoneV, <<>>, NoneV, <<>>)
    /\ UNCHANGED <<pc, config_file, env_file, disk, ops, cli, logger, events>>

Set(path, value) ==
    /\ pc = "ready"
    /\ ops < MaxOps
    /\ LET r == set(config, defaults, path, value)
       IN  /\ config' = r.config
           /\ defaults' = r.defaults
           /\ last' = Obs("set", r.exc, NoneV, path, value, <<>>)
    /\ ops' = ops + 1
    /\ UNCHANGED <<pc, environ, config_file, env_file, disk, cli, logger, events>>

Get(path, default) ==
    /\ pc = "ready"
    /\ LET r == get(Tree(config, defaults), path, default)
       IN  last' = Obs("get", r.exc, r.ret, path, default, <<>>)
    /\ UNCHANGED <<pc, defaults, config, environ, config_file, env_file, disk, ops, cli, logger, events>>

ValidateConfig ==
    /\ pc = "ready"
    /\ LET r == validate_config(Tree(config, defaults))
       IN  last' = Obs("validate_config", r.exc, r.ret, <<>>, NoneV, r.diag)
    /\ UNCHANGED <<pc, defaults, config, environ, config_file, env_file, disk, ops, cli, logger, events>>

CreateSafeConfig ==
    /\ pc = "ready"
    /\ LET r == _create_safe_config(Tree(config, defaults))
       IN  last' = IF IsRaise(r)
                   THEN Obs("_create_safe_config", r.v, NoneV, <<>>, NoneV, <<>>)
                   ELSE Obs("_create_safe_config", "", r, <<>>, NoneV, <<>>)
    /\ UNCHANGED <<pc, defaults, config, environ, config_file, env_file, disk, ops, cli, logger, events>>

\* save_config(): to self.config_file
SaveConfigDefault(io_ok) ==
    /\ pc = "ready"
    /\ ops < MaxOps
    /\ ops' = ops + 1
    /\ LET r == save_config(Tree(config, defaults), config_file, io_ok)
       IN  /\ config_file' = r.file
           /\ last' = Obs("save_config", r.exc,
                          IF r.exc = "" /\ r.diag = <<>> THEN r.file ELSE NoneV,
                          <<>>, NoneV, r.diag)
    /\ UNCHANGED <<pc, defaults, config, environ, env_file, disk, cli, logger, events>>

\* save_config(path): to another file, one that does not exist yet
SaveConfigTo(io_ok) ==
    /\ pc = "ready"
    /\ disk.out.t = "absent"
    /\ LET r == save_config(Tree(config, defaults), disk.out, io_ok)
       IN  /\ disk' = [disk EXCEPT !.out = r.file]
           /\ last' = Obs("save_config", r.exc,
                          IF r.exc = "" /\ r.diag = <<>> THEN r.file ELSE NoneV,
                          <<>>, NoneV, r.diag)
    /\ UNCHANGED <<pc, defaults, config, environ, config_file, env_file, ops, cli, logger, events>>

\* save_config(path) with path naming a file that exists already (the
\* file the resolver was built from)
SaveConfigOver(io_ok) ==
    /\ pc = "ready"
    /\ config_file.t # "absent"
    /\ LET r == save_config(Tree(config, defaults), config_file, io_ok)
       IN  /\ config_file' = r.file
           /\ last' = Obs("save_config", r.exc,
                          IF r.exc = "" /\ r.diag = <<>> THEN r.file ELSE NoneV,
                          <<>>, config_file, r.diag)
    /\ UNCHANGED <<pc, defaults, config, environ, env_file, disk, ops, cli, logger, events>>

CreateExampleFiles ==
    /\ pc = "ready"
    /\ ops < MaxOps
    /\ ops' = ops + 1
    /\ disk' = create_example_files(defaults, disk)
    /\ last' = Obs("create_example_files", "", NoneV, <<>>, NoneV, <<>>)
    /\ UNCHANGED <<pc, defaults, config, environ, config_file, env_file, cli, logger, events>>

\* save_config(path) to a file that does not exist yet, then
\* ConfigManager(path, self.env_file) in the same process: a second
\* resolver, with defaults of its own, whose tree is observed
RoundTrip ==
    /\ pc = "ready"
    /\ disk.out.t = "absent"
    /\ LET s == save_config(Tree(config, defaults), disk.out, TRUE)
           r == load_config(_get_default_config, environ, s.file, env_file)
       IN  /\ disk' = [disk EXCEPT !.out = s.file]
           /\ environ' = r.environ
           /\ last' = Obs("round_trip", IF s.exc # "" THEN s.exc ELSE r.exc,
                          DictV(Tree(r.config, r.defaults)), <<>>, NoneV, s.diag)
    /\ UNCHANGED <<pc, defaults, config, config_file, env_file, ops, cli, logger, events>>

\* the <<section, key>> at which the dict _create_safe_config returns holds
\* the very object the tree holds: the comprehension and values.copy() make
\* a new dict per section and bind the values of the section, not copies
safe_config_shares(tree) ==
    {sk \in (DOMAIN tree) \X UNION {DOMAIN tree[s].v : s \in {x \in DOMAIN tree : IsDict(tree[x])}} :
        /\ IsDict(tree[sk[1]])
        /\ sk[2] \in DOMAIN tree[sk[1]].v
        /\ HasCopy(tree[sk[1]].v[sk[2]])}

\* safe = _create_safe_config(); safe['trading']['supported_symbols']
\* .append(item): a caller changes a list of the dict it was given.  The
\* list is changed in place, so the tree sees the change when it holds the
\* same list.
AppendToSafeConfig(item) ==
    /\ pc = "ready"
    /\ ops < MaxOps
    /\ LET tree == Tree(config, defaults)
           safe == _create_safe_config(tree)
           symbols == IF IsRaise(safe) THEN safe
                      ELSE Descend(safe, split(P_trading_supported_symbols, "."))
       IN  /\ symbols.t = "list"
           /\ LET changed == ListV(Append(symbols.v, item))
                  r == IF <<"trading", "supported_symbols">> \in safe_config_shares(tree)
                       THEN set(config, defaults, P_trading_supported_symbols, changed)
                       ELSE [exc |-> "", config |-> config, defaults |-> defaults]
              IN  /\ config' = r.config
                  /\ defaults' = r.defaults
                  /\ last' = Obs("append_to_safe_config", "",
                                 DictV(set(safe.v, <<>>, P_trading_supported_symbols, changed).config),
                                 P_trading_supported_symbols, DictV(tree), <<>>)
    /\ ops' = ops + 1
    /\ UNCHANGED <<pc, environ, config_file, env_file, disk, cli, logger, events>>

\* _deep_merge(base, update) on its own: base is changed in place
DeepMerge ==
    /\ pc = "merge"
    /\ config' = _deep_merge(config, config_file.v)
    /\ last' = Obs("_deep_merge", "", NoneV, <<>>, DictV(config), <<>>)
    /\ UNCHANGED <<pc, defaults, environ, config_file, env_file, disk, ops, cli, logger, events>>

\* _convert_env_value(os.getenv(name)) on its own
ConvertEnvValue(name) ==
    /\ pc = "convert"
    /\ name \in DOMAIN environ
    /\ last' = Obs("_convert_env_value", "", _convert_env_value(environ[name]),
                   <<>>, StrV(environ[name]), <<>>)
    /\ UNCHANGED <<pc, defaults, config, environ, config_file, env_file, disk, ops, cli, logger, events>>

(* The surroundings: the process environment and the input files change   *)
(* between the operations on an instance                                   *)

Setenv(name, value) ==
    /\ pc = "ready"
    /\ ops < MaxOps
    /\ environ' = Put(environ, name, value)
    /\ ops' = ops + 1
    /\ last' = Obs("setenv", "", NoneV, <<>>, NoneV, <<>>)
    /\ UNCHANGED <<pc, defaults, config, config_file, env_file, disk, cli, logger, events>>

Unsetenv(name) ==
    /\ pc = "ready"
    /\ ops < MaxOps
    /\ name \in DOMAIN environ
    /\ environ' = Without(environ, {name})
    /\ ops' = ops + 1
    /\ last' = Obs("unsetenv", "", NoneV, <<>>, NoneV, <<>>)
    /\ UNCHANGED <<pc, defaults, config, config_file, env_file, disk, cli, logger, events>>

WriteConfigFile(doc) ==
    /\ pc = "ready"
    /\ ops < MaxOps
    /\ doc # config_file
    /\ config_file' = doc
    /\ ops' = ops + 1
    /\ last' = Obs("write_config_file", "", NoneV, <<>>, NoneV, <<>>)
    /\ UNCHANGED <<pc, defaults, config, environ, env_file, disk, cli, logger, events>>

----------------------------------------------------------------------------
(* Loading: construction and reloading under changing inputs *)

\* before ConfigManager(): the inputs are drawn from the given sets
InitWith(envs, cfiles, efiles) ==
    /\ pc = "none"
    /\ defaults = _get_default_config
    /\ config = EmptyDict
    /\ environ \in envs
    /\ config_file \in cfiles
    /\ env_file \in efiles
    /\ disk = NoFiles
    /\ ops = 0
    /\ last = Obs("", "", NoneV, <<>>, NoneV, <<>>)
    /\ cli = NoCli
    /\ logger = NoLogger
    /\ events = <<>>

Init == InitWith(InitEnvs, ConfigFiles, EnvFiles)

Next ==
    \/ Construct
    \/ LoadConfig
    \/ \E path \in LoadSetPaths : Set(path, IntV(7))
    \/ \E name \in EnvNames, value \in EnvValues : Setenv(name, value)
    \/ \E name \in EnvNames : Unsetenv(name)
    \/ \E doc \in ConfigFiles : WriteConfigFile(doc)
    \/ \E io_ok \in BOOLEAN : SaveConfigDefault(io_ok)
    \/ \E io_ok \in BOOLEAN : SaveConfigTo(io_ok)
    \/ CreateExampleFiles

Spec == Init /\ [][Next]_vars

----------------------------------------------------------------------------
(* Properties of loading *)

LoadOps == {"__init__", "load_config"}

\* the last operation was a load that returned
Loaded == last.op \in LoadOps /\ last.exc = ""

\* the overrides the process environment defines, as a tree
EnvTree ==
    LET set_vars == {i \in 1..Len(env_mappings) : env_mappings[i][1] \in DOMAIN environ}
        sections == {env_mappings[i][2] : i \in set_vars}
    IN  [s \in sections |->
            DictV([k \in {env_mappings[i][3] : i \in {j \in set_vars : env_mappings[j][2] = s}} |->
                      LET i == CHOOSE i \in set_vars :
                                   env_mappings[i][2] = s /\ env_mappings[i][3] = k
                      IN  _convert_env_value(environ[env_mappings[i][1]])])]

\* the document of the structured config file, as a tree
JsonTree == IF IsDict(config_file) THEN config_file.v ELSE EmptyDict

Defines(tree, path) == ~IsRaise(Descend(DictV(tree), split(path, ".")))
ValueAt(tree, path) == Descend(DictV(tree), split(path, "."))

\* the value of the highest-precedence source that defines path
SourceValue(path) ==
    IF Defines(EnvTree, path) THEN ValueAt(EnvTree, path)
    ELSE IF Defines(JsonTree, path) THEN ValueAt(JsonTree, path)
    ELSE IF Defines(_get_default_config, path) THEN ValueAt(_get_default_config, path)
    ELSE NoneV

P_extra_a == <<"e","x","t","r","a",".","a">>
P_api     == <<"a","p","i">>

\* the dotted paths the properties look at
CheckPaths ==
    {P_api_key, P_api_secret, P_api_testnet, P_api_timeout, P_trading_max_quantity,
     P_trading_min_quantity, P_trading_default_symbol, P_trading_supported_symbols,
     P_risk_management_max_daily_trades, P_logging_log_level, P_extra_a, P_api, P_ui,
     P_a_b_c}

\* path leads to a value of the tree that is not a mapping
LeafIn(tree, path) == Defines(tree, path) /\ ~IsDict(ValueAt(tree, path))

\* C1: after load_config, get(path) is the value of the highest-precedence
\* source (defaults < JSON file < environment) that defines path, for every
\* path present in the tree
C1_Precedence ==
    Loaded =>
        \A path \in CheckPaths :
            LeafIn(Tree(config, defaults), path) =>
                get(Tree(config, defaults), path, NoneV).ret = SourceValue(path)

\* C2: load_config, and so the constructor, never raises and ends with a
\* tree that holds every section of the defaults
C2_LoadNeverRaises ==
    last.op \in LoadOps =>
        /\ last.exc = ""
        /\ Sections \subseteq DOMAIN Tree(config, defaults)

\* a file holds an api.key or an api.secret entry
HasCredentials(file) ==
    /\ IsDict(file)
    /\ "api" \in DOMAIN file.v
    /\ IsDict(file.v["api"])
    /\ {"key", "secret"} \cap DOMAIN file.v["api"].v # {}

\* C3: no file written by save_config or create_example_files holds api.key
\* or api.secret
C3_NoCredentialsOnDisk ==
    /\ ~HasCredentials(disk.config_example)
    /\ ~HasCredentials(disk.out)
    /\ last.op = "save_config" => ~HasCredentials(last.ret)

\* C6: the built-in defaults held by the resolver never change
C6_DefaultsUnchanged ==
    pc = "ready" => defaults = _get_default_config

----------------------------------------------------------------------------
(* Reading and writing the tree: get, set and _create_safe_config on the   *)
(* trees that construction and set produce                                 *)

Doc5 == DictV([ui |-> IntV(5), api |-> DictV([secret |-> StrV(V_abc)])])
TreeConfigFiles == {AbsentFile, Doc2, Doc3, Doc5}
TreeEnvs == {Env0, Env2}

P_empty    == <<>>
P_api_dot  == <<"a","p","i",".">>
P_trading_default_symbol_x ==
    <<"t","r","a","d","i","n","g",".","d","e","f","a","u","l","t","_","s","y","m","b","o","l",".","x">>
P_trading_supported_symbols_x ==
    <<"t","r","a","d","i","n","g",".","s","u","p","p","o","r","t","e","d","_","s","y","m","b","o","l","s",".","x">>
P_a_b      == <<"a",".","b">>

TreeSetPaths == {P_api_key, P_a_b_c, P_a_b, P_ui, P_api_testnet_x,
                 P_trading_default_symbol_x, P_trading_supported_symbols_x}
TreeSetValues == {IntV(7), StrV(V_abc), BoolV(FALSE)}
GetPaths == {P_api_key, P_api_timeout, P_api, P_ui, P_a_b_c, P_a_b, P_api_testnet_x,
             P_trading_default_symbol_x, P_trading_supported_symbols_x, P_extra_a,
             P_empty, P_api_dot}
GetDefaults == {NoneV, StrV(V_abc)}

InitTree == InitWith(TreeEnvs, TreeConfigFiles, {AbsentFile})

NextTree ==
    \/ Construct
    \/ \E path \in TreeSetPaths, value \in TreeSetValues : Set(path, value)
    \/ \E path \in GetPaths, default \in GetDefaults : Get(path, default)
    \/ CreateSafeConfig

SpecTree == InitTree /\ [][NextTree]_vars

(* Properties of get, set and _create_safe_config *)

Missing == [t |-> "missing", v |-> 0]

\* the value the first i segments lead to: each segment must be a key of
\* the mapping the segments before it lead to
RECURSIVE Reached(_, _, _)
Reached(tree, keys, i) ==
    IF i = 0 THEN DictV(tree)
    ELSE LET parent == Reached(tree, keys, i - 1)
         IN  IF parent.t = "dict" /\ Str(keys[i]) \in DOMAIN parent.v
             THEN parent.v[Str(keys[i])]
             ELSE Missing

\* C7: get never raises; it returns the default when a segment is missing
\* or an intermediate value is not a mapping, else the value at the path
C7_GetNeverRaises ==
    last.op = "get" =>
        /\ last.exc = ""
        /\ LET keys == split(last.path, ".")
               r == Reached(Tree(config, defaults), keys, Len(keys))
           IN  last.ret = IF r.t = "missing" THEN last.arg ELSE r

\* get was asked for a path through a boolean and returned the default
C7_Witness ==
    /\ last.op = "get"
    /\ last.path = P_api_testnet_x
    /\ last.arg = StrV(V_abc)
    /\ last.ret = StrV(V_abc)
    /\ ValueAt(Tree(config, defaults), P_api_testnet).t = "bool"

\* C5: set always succeeds, also through a non-mapping intermediate
\* segment, and afterwards the value is stored at the final segment
C5_SetAlwaysSucceeds ==
    last.op = "set" =>
        /\ last.exc = ""
        /\ Defines(Tree(config, defaults), last.path)
        /\ ValueAt(Tree(config, defaults), last.path) = last.arg

\* C8: set(p, v) immediately followed by get(p) returns v
C8_SetThenGet ==
    last.op = "set" =>
        /\ last.exc = ""
        /\ get(Tree(config, defaults), last.path, NoneV) = [exc |-> "", ret |-> last.arg]

\* the tree without the entries key and secret of its api section
SafeReference(tree) ==
    [s \in DOMAIN tree |->
        IF s = "api" /\ IsDict(tree[s])
        THEN DictV([k \in (DOMAIN tree[s].v) \ {"key", "secret"} |-> tree[s].v[k]])
        ELSE tree[s]]

\* C4: _create_safe_config returns the tree without api.key and api.secret,
\* for every reachable tree
C4_SafeConfig ==
    last.op = "_create_safe_config" =>
        /\ last.exc = ""
        /\ last.ret = DictV(SafeReference(Tree(config, defaults)))

----------------------------------------------------------------------------
(* Validation: validate_config on the trees constructed from combinations  *)
(* of mapped environment variables                                         *)

V_empty   == <<>>
V_0       == <<"0">>
V_minus1  == <<"-","1">>
V_nan     == <<"n","a","n">>
V_0_0     == <<"0",".","0">>
V_BT      == <<"B","T">>
V_VERBOSE == <<"V","E","R","B","O","S","E">>
V_debug   == <<"d","e","b","u","g">>

\* the choices for one variable: <<>> leaves it unset, <<s>> sets it to s
KeyOpts    == {<<>>, <<V_abc>>, <<V_empty>>}
SecretOpts == {<<>>, <<V_abc>>}
TradesOpts == {<<>>, <<V_0>>, <<V_minus1>>, <<V_true>>, <<V_nan>>, <<V_abc>>}
MinQtyOpts == {<<>>, <<V_0_0>>}
SymbolOpts == {<<>>, <<V_BT>>, <<V_5>>}
LevelOpts  == {<<>>, <<V_VERBOSE>>, <<V_debug>>, <<V_5>>}

EnvFrom(k, s, m, q, d, l) ==
    LET f == [BINANCE_API_KEY |-> k, BINANCE_API_SECRET |-> s, MAX_DAILY_TRADES |-> m,
              MIN_QUANTITY |-> q, DEFAULT_SYMBOL |-> d, LOG_LEVEL |-> l]
    IN  [n \in {x \in DOMAIN f : f[x] # <<>>} |-> f[n][1]]

ValidateEnvs ==
    {EnvFrom(k, s, m, q, d, l) :
        k \in KeyOpts, s \in SecretOpts, m \in TradesOpts,
        q \in MinQtyOpts, d \in SymbolOpts, l \in LevelOpts}

Doc6 == DictV([risk_management |-> DictV([max_position_size |-> IntV(0)]),
               api |-> DictV([secret |-> StrV(V_abc)])])
ValidateConfigFiles == {AbsentFile, Doc6}

InitValidate == InitWith(ValidateEnvs, ValidateConfigFiles, {AbsentFile})

NextValidate ==
    \/ Construct
    \/ ValidateConfig

SpecValidate == InitValidate /\ [][NextValidate]_vars

(* Properties of validate_config *)

\* present and non-empty
NonEmptyAt(tree, path) ==
    /\ Defines(tree, path)
    /\ LET x == ValueAt(tree, path)
       IN  /\ x.t # "none"
           /\ x.t \in {"str", "list"} => x.v # <<>>
           /\ x.t = "dict" => DOMAIN x.v # {}

CredentialsOk(tree) == NonEmptyAt(tree, P_api_key) /\ NonEmptyAt(tree, P_api_secret)

\* a number strictly greater than zero
PositiveNumber(x) ==
    \/ x.t \in {"int", "float"} /\ x.v > 0
    \/ x.t = "inf" /\ x.v > 0

\* the numeric limits in the order of the claim, with their names
LimitNames == <<"max_daily_trades", "max_position_size", "max_quantity", "min_quantity">>
LimitValue(tree, i) == get_risk_limits(tree)[i][2]
LimitsOk(tree) == \A i \in 1..4 : PositiveNumber(LimitValue(tree, i))

SymbolOk(tree) ==
    LET x == get(tree, P_trading_default_symbol, StrV(S_BTCUSDT)).ret
    IN  x.t = "str" /\ Len(x.v) >= 3

LogLevelOk(tree) ==
    LET x == get(tree, P_logging_log_level, StrV(S_INFO)).ret
    IN  x.t = "str" /\ upper(x.v) \in {S_DEBUG, S_INFO, S_WARNING, S_ERROR, S_CRITICAL}

\* C9: validate_config returns true exactly when the credentials are
\* present and non-empty, the four limits are numbers greater than zero,
\* the default symbol is a string of at least 3 characters and the
\* upper-cased log level is a known level
C9_ValidateIff ==
    last.op = "validate_config" =>
        LET tree == Tree(config, defaults)
        IN  (last.ret = BoolV(TRUE)) <=>
                (CredentialsOk(tree) /\ LimitsOk(tree) /\ SymbolOk(tree) /\ LogLevelOk(tree))

\* the first check, in the order of the claim, that the tree fails
FirstFailing(tree) ==
    IF ~CredentialsOk(tree) THEN "credentials"
    ELSE IF ~LimitsOk(tree)
    THEN LimitNames[CHOOSE i \in 1..4 :
                        /\ ~PositiveNumber(LimitValue(tree, i))
                        /\ \A j \in 1..(i - 1) : PositiveNumber(LimitValue(tree, j))]
    ELSE IF ~SymbolOk(tree) THEN "default_symbol"
    ELSE IF ~LogLevelOk(tree) THEN "log_level"
    ELSE "none"

\* the check a logged diagnostic belongs to
DiagCheck(d) ==
    IF d = "Configuration validation failed" THEN "credentials"
    ELSE IF \E i \in 1..4 : d = "Invalid " \o LimitNames[i]
    THEN LimitNames[CHOOSE i \in 1..4 : d = "Invalid " \o LimitNames[i]]
    ELSE IF d = "Invalid default symbol" THEN "default_symbol"
    ELSE IF d \in {"Invalid log level", "Unexpected error during validation"}
    THEN "log_level"
    ELSE "other"

\* C10: a failed validation reports exactly one diagnostic, that of the
\* first check the tree fails in the order credentials, limits, symbol,
\* log level
C10_FirstFailureReported ==
    (last.op = "validate_config" /\ last.ret = BoolV(FALSE)) =>
        /\ Len(last.diag) = 1
        /\ DiagCheck(last.diag[1]) = FirstFailing(Tree(config, defaults))

\* C11: validate_config never raises: on every tree it returns a boolean,
\* and a failure is reported as a logged error
C11_ValidateNeverRaises ==
    last.op = "validate_config" =>
        /\ last.exc = ""
        /\ last.ret \in {BoolV(TRUE), BoolV(FALSE)}
        /\ last.ret = BoolV(FALSE) => Len(last.diag) >= 1

\* validate_config met a log level that is an integer, logged the
\* unexpected error and returned False
C11_Witness ==
    /\ last.op = "validate_config"
    /\ last.exc = ""
    /\ last.ret = BoolV(FALSE)
    /\ last.diag = <<"Unexpected error during validation">>
    /\ ValueAt(Tree(config, defaults), P_logging_log_level).t = "int"

----------------------------------------------------------------------------
(* Export: save_config, _create_safe_config and the round trip through a   *)
(* saved file, on trees that construction and set produce                  *)

Doc7 == DictV([extra |-> DictV([a |-> DictV([b |-> IntV(1)])]),
               trading |-> DictV([min_quantity |-> NoneV,
                                  supported_symbols |-> ListV(<<IntV(1)>>)])])
SaveConfigFiles == {AbsentFile, Doc1, Doc5, Doc7}
SaveEnvs == {Env0, Env2}

P_trading   == <<"t","r","a","d","i","n","g">>
P_ui_x      == <<"u","i",".","x">>
P_extra_a_b == <<"e","x","t","r","a",".","a",".","b">>

SaveSetPaths == {P_trading_max_quantity, P_trading, P_ui, P_ui_x, P_extra_a_b}
SaveSetValues == {IntV(7), ObjV, DictV(EmptyDict)}
AppendItems == {StrV(V_abc)}

InitSave == InitWith(SaveEnvs, SaveConfigFiles, {AbsentFile})

NextSave ==
    \/ Construct
    \/ \E path \in SaveSetPaths, value \in SaveSetValues : Set(path, value)
    \/ \E io_ok \in BOOLEAN : SaveConfigTo(io_ok)
    \/ \E io_ok \in BOOLEAN : SaveConfigOver(io_ok)
    \/ RoundTrip
    \/ \E item \in AppendItems : AppendToSafeConfig(item)

SpecSave == InitSave /\ [][NextSave]_vars

(* Properties of the export *)

\* C12: save_config(path), then a resolver loaded from path in the same
\* environment, gives a tree that agrees with the saved one on every value
\* but api.key and api.secret
C12_RoundTrip ==
    last.op = "round_trip" =>
        /\ last.exc = ""
        /\ last.ret.t = "dict"
        /\ SafeReference(last.ret.v) = SafeReference(Tree(config, defaults))

\* C13: changing a value nested in the dict _create_safe_config returned
\* leaves the tree as it was
C13_SafeConfigDeepCopy ==
    last.op = "append_to_safe_config" => last.arg = DictV(Tree(config, defaults))

\* C14: save_config never raises; a failure is logged as an error and the
\* call returns
C14_SaveNeverRaises ==
    last.op = "save_config" =>
        /\ last.exc = ""
        /\ last.ret = NoneV => last.diag = <<"Error saving config">>
        /\ last.ret # NoneV => last.diag = <<>>

\* save_config met a value json.dump cannot serialise, logged the error
\* and returned
C14_Witness ==
    /\ last.op = "save_config"
    /\ last.exc = ""
    /\ last.diag = <<"Error saving config">>
    /\ ~IsRaise(_create_safe_config(Tree(config, defaults)))
    /\ ~Serialisable(DictV(Tree(config, defaults)))
    /\ disk.out = GarbageFile

----------------------------------------------------------------------------
(* _deep_merge as a function of its two arguments *)

MergeValues == {IntV(1), ListV(<<IntV(1), IntV(2)>>), DictV([c |-> IntV(1)]),
                DictV([c |-> DictV([e |-> IntV(1)]), d |-> IntV(2)])}
MergeBases ==
    {EmptyDict, _get_default_config} \cup {[a |-> x, b |-> y] : x, y \in MergeValues}

UpdateValues == {IntV(5), NoneV, ListV(<<IntV(9)>>), DictV(EmptyDict),
                 DictV([c |-> IntV(5)]), DictV([c |-> DictV([f |-> IntV(5)])])}
MergeUpdates ==
    {EmptyDict, Doc1.v} \cup {[b |-> y] : y \in UpdateValues}
        \cup {[a |-> x, n |-> y] : x, y \in UpdateValues}

InitMerge ==
    /\ pc = "merge"
    /\ defaults = _get_default_config
    /\ config \in MergeBases
    /\ environ = Env0
    /\ config_file \in {DictV(update) : update \in MergeUpdates}
    /\ env_file = AbsentFile
    /\ disk = NoFiles
    /\ ops = 0
    /\ last = Obs("", "", NoneV, <<>>, NoneV, <<>>)
    /\ cli = NoCli
    /\ logger = NoLogger
    /\ events = <<>>

NextMerge == DeepMerge

SpecMerge == InitMerge /\ [][NextMerge]_vars

\* result is the deep merge of update into base: mappings on both sides are
\* merged key by key, anything else of update replaces what base holds, and
\* the keys update does not have keep their values
RECURSIVE MergedAs(_, _, _)
MergedAs(result, base, update) ==
    /\ DOMAIN result = (DOMAIN base) \cup (DOMAIN update)
    /\ \A k \in (DOMAIN base) \ (DOMAIN update) : result[k] = base[k]
    /\ \A k \in DOMAIN update :
           IF k \in DOMAIN base /\ base[k].t = "dict" /\ update[k].t = "dict"
           THEN result[k].t = "dict" /\ MergedAs(result[k].v, base[k].v, update[k].v)
           ELSE result[k] = update[k]

\* C15: _deep_merge(base, update) leaves in base the reference deep merge
\* of update into base
C15_DeepMerge ==
    last.op = "_deep_merge" => MergedAs(config, last.arg.v, config_file.v)

\* {"trading": {"max_quantity": 5}} was merged into the defaults:
\* trading.default_symbol is untouched and trading.max_quantity is 5
C15_Witness ==
    /\ last.op = "_deep_merge"
    /\ last.arg = DictV(_get_default_config)
    /\ config_file = Doc1
    /\ ValueAt(config, P_trading_default_symbol) = StrV(S_BTCUSDT)
    /\ ValueAt(config, P_trading_max_quantity) = IntV(5)
    /\ DOMAIN config["trading"].v = DOMAIN _get_default_config["trading"].v

----------------------------------------------------------------------------
(* _convert_env_value as a function of the string *)

\* the longest string drawn from ConvertChars
MaxLen == 3

ConvertChars == {"0", "1", ".", "-", " ", "a"}
V_TRUE  == <<"T","R","U","E">>
V_True  == <<"T","r","u","e">>
V_false == <<"f","a","l","s","e">>
V_10    == <<"1","0">>
V_inf   == <<"-","i","n","f">>
V_truex == <<"t","r","u","e"," ">>
ConvertInputs ==
    UNION {[1..n -> ConvertChars] : n \in 0..MaxLen}
        \cup {V_true, V_TRUE, V_True, V_false, V_10, V_10_5, V_abc, V_nan, V_inf, V_truex}

InitConvert ==
    /\ pc = "convert"
    /\ defaults = _get_default_config
    /\ config = EmptyDict
    /\ environ \in {[MAX_QUANTITY |-> s] : s \in ConvertInputs}
    /\ config_file = AbsentFile
    /\ env_file = AbsentFile
    /\ disk = NoFiles
    /\ ops = 0
    /\ last = Obs("", "", NoneV, <<>>, NoneV, <<>>)
    /\ cli = NoCli
    /\ logger = NoLogger
    /\ events = <<>>

NextConvert == \E name \in {"MAX_QUANTITY"} : ConvertEnvValue(name)

SpecConvert == InitConvert /\ [][NextConvert]_vars

\* the coercion rules in the order boolean, integer, float, string
Coerced(s) ==
    IF lower(s) \in {TrueWord, FalseWord} THEN BoolV(lower(s) = TrueWord)
    ELSE IF ~HasChar(s, ".") /\ IsIntLiteral(s) THEN IntV(IntOf(s))
    ELSE IF IsFloatLiteral(s) THEN FloatOf(s)
    ELSE StrV(s)

\* C16: _convert_env_value applies the rules boolean, integer, float,
\* string in that order: "true" and "TRUE" give true, "10" the integer 10,
\* "10.5" the float 10.5 and "abc" stays "abc"
C16_CoercionOrder ==
    last.op = "_convert_env_value" =>
        LET s == last.arg.v
        IN  /\ last.ret = Coerced(s)
            /\ s \in {V_true, V_TRUE} => last.ret = BoolV(TRUE)
            /\ s = V_10 => last.ret = IntV(10)
            /\ s = V_10_5 => last.ret = FloatV(10500)
            /\ s = V_abc => last.ret = StrV(V_abc)

\* "10" was converted to the integer 10
C16_Witness ==
    /\ last.op = "_convert_env_value"
    /\ last.arg = StrV(V_10)
    /\ last.ret = IntV(10)

----------------------------------------------------------------------------
(* Properties of the environment steps of load_config, under Spec *)

\* the value the tree holds under section and key
At2(tree, section, key) ==
    IF section \in DOMAIN tree /\ tree[section].t = "dict" /\ key \in DOMAIN tree[section].v
    THEN tree[section].v[key]
    ELSE Missing

\* the variables of the environment-variable table the claim lists
ListedVariables ==
    {"BINANCE_API_KEY", "BINANCE_API_SECRET", "BINANCE_TESTNET", "API_TIMEOUT",
     "API_RETRY_ATTEMPTS", "DEFAULT_SYMBOL", "MAX_QUANTITY", "MIN_QUANTITY",
     "DEFAULT_ORDER_TYPE", "MAX_DAILY_TRADES", "MAX_POSITION_SIZE", "ENABLE_STOP_LOSS",
     "LOG_LEVEL"}

\* the defaults a load step starts from
DefaultsAtLoad == IF last'.op = "__init__" THEN _get_default_config ELSE defaults

\* the tree of a load step before its environment-variable step
TreeBeforeEnvVars ==
    LET j == _load_from_json(shallow_copy(DefaultsAtLoad), DefaultsAtLoad, config_file)
    IN  Tree(j.config, j.defaults)

\* C17: after load_config on a resolver, each listed variable that is set
\* has its coerced value at its (section, key), and the destination of each
\* listed variable that is not set is as the steps before left it
C17_EnvTable ==
    [][(last'.op \in LoadOps /\ pc' = "ready") =>
          \A i \in 1..Len(env_mappings) :
              env_mappings[i][1] \in ListedVariables =>
                  LET after == At2(Tree(config', defaults'), env_mappings[i][2], env_mappings[i][3])
                  IN  IF env_mappings[i][1] \in DOMAIN environ'
                      THEN after = _convert_env_value(environ'[env_mappings[i][1]])
                      ELSE after = At2(TreeBeforeEnvVars, env_mappings[i][2], env_mappings[i][3])]_vars

\* line is neither blank nor a comment and holds an '='
IsAssignment(line) ==
    LET l == strip(line) IN l # <<>> /\ Head(l) # "#" /\ HasChar(l, "=")

\* the name and the value of an assignment line
NameOf(line) == strip(split_first(strip(line), "=")[1])
ValueOf(line) == strip(split_first(strip(line), "=")[2])

\* C18: the dotenv step sets, for every assignment line that names a
\* variable, that variable to the trimmed text after the first '=' (the
\* last such line for a name wins), and changes no other variable
C18_DotenvParsing ==
    [][(last'.op \in LoadOps /\ env_file.t = "lines") =>
          LET lines == env_file.v
              named == {i \in 1..Len(lines) : IsAssignment(lines[i]) /\ NameOf(lines[i]) # <<>>}
              names == {Str(NameOf(lines[i])) : i \in named}
          IN  /\ \A i \in named :
                     (\A j \in named : j > i => NameOf(lines[j]) # NameOf(lines[i])) =>
                         /\ Str(NameOf(lines[i])) \in DOMAIN environ'
                         /\ environ'[Str(NameOf(lines[i]))] = ValueOf(lines[i])
              /\ \A n \in ((DOMAIN environ) \cup (DOMAIN environ')) \ names :
                     /\ n \in DOMAIN environ
                     /\ n \in DOMAIN environ'
                     /\ environ'[n] = environ[n]]_vars

TableVariables == {env_mappings[i][1] : i \in 1..Len(env_mappings)}

\* an assignment line whose name is not a variable of the table
IsUnmapped(line) ==
    IsAssignment(line) /\ NameOf(line) # <<>> /\ Str(NameOf(line)) \notin TableVariables

\* C19: the lines of the dotenv file that name a variable outside the table
\* change no value of the tree: load_config ends with the tree it ends with
\* when these lines are taken out of the file
C19_DotenvFrame ==
    [][(last'.op \in LoadOps /\ env_file.t = "lines") =>
          LET mapped_only == LinesFile(SelectSeq(env_file.v, LAMBDA l : ~IsUnmapped(l)))
              r == load_config(DefaultsAtLoad, environ, config_file, mapped_only)
          IN  /\ last'.exc = r.exc
              /\ pc' = "ready" => Tree(config', defaults') = Tree(r.config, r.defaults)]_vars

\* a load has read the line FOO=bar=baz: the variable is in the process
\* environment and the tree holds it nowhere
C19_Witness ==
    /\ last.op \in LoadOps
    /\ pc = "ready"
    /\ env_file = EnvFile1
    /\ "FOO" \in DOMAIN environ
    /\ environ["FOO"] = <<"b","a","r","=","b","a","z">>
    /\ \A section \in DOMAIN Tree(config, defaults) :
           /\ section # "FOO"
           /\ At2(Tree(config, defaults), section, "FOO") = Missing

\* a value of one of the four scalar types
IsScalar(x) == x.t \in {"bool", "int", "float", "inf", "nan", "str"}

\* C20: after load_config every value under a section is a boolean, an
\* integer, a float or a string, except trading.supported_symbols, which is
\* a sequence of strings; nothing is nested deeper
C20_TreeShape ==
    (last.op \in LoadOps /\ pc = "ready") =>
        LET tree == Tree(config, defaults)
        IN  \A section \in DOMAIN tree :
                IF tree[section].t = "dict"
                THEN \A key \in DOMAIN tree[section].v :
                         LET x == tree[section].v[key]
                         IN  IF section = "trading" /\ key = "supported_symbols"
                             THEN /\ x.t = "list"
                                  /\ \A i \in 1..Len(x.v) : x.v[i].t = "str"
                             ELSE IsScalar(x)
                ELSE IsScalar(tree[section])

----------------------------------------------------------------------------
(* The logger (src/logger.py): one TradingBotLogger per process, made on   *)
(* first use.  An instance is [t |-> "logger", v |-> [id, log_level,       *)
(* max_bytes, backup_count]]; id is the identity of the object.            *)

\* something a handler did: a log entry, a call to the exchange, a result
Ev(e, a) == [e |-> e, a |-> a]

LoggerParams ==
    {"log_file", "error_log_file", "trade_log_file", "log_level", "max_bytes", "backup_count"}

\* getattr(logging, name.upper(), logging.INFO) for the level names
LevelOf(name) ==
    LET u == upper(name)
    IN  CASE u = S_DEBUG -> 10
          [] u = S_INFO -> 20
          [] u = S_WARNING -> 30
          [] u = S_ERROR -> 40
          [] u = S_CRITICAL -> 50
          [] OTHER -> 20

\* TradingBotLogger(**kwargs), the object being the id-th one made: an
\* unknown keyword is a TypeError, log_level.upper() raises AttributeError
\* on anything but a string, RotatingFileHandler compares maxBytes with 0
TradingBotLogger(kwargs, id) ==
    LET arg(name, default) == IF name \in DOMAIN kwargs THEN kwargs[name] ELSE default
        log_level == arg("log_level", StrV(S_INFO))
        max_bytes == arg("max_bytes", IntV(10485760))
        backup_count == arg("backup_count", IntV(5))
    IN  IF ~(DOMAIN kwargs \subseteq LoggerParams) THEN Raise("TypeError")
        ELSE IF log_level.t # "str" THEN Raise("AttributeError")
        ELSE IF ~IsIntOrFloat(max_bytes) THEN Raise("TypeError")
        ELSE [t |-> "logger",
              v |-> [id |-> id, log_level |-> LevelOf(log_level.v),
                     max_bytes |-> max_bytes, backup_count |-> backup_count]]

\* a get_logger_instance that makes a new logger whenever it is given a
\* configuration
get_logger_instance_config_wins(lg, conf) ==
    IF lg.instance = NoneV \/ Truthy(conf)
    THEN LET made == IF ~Truthy(conf) THEN TradingBotLogger(<<>>, lg.created + 1)
                     ELSE IF ~IsDict(conf) THEN Raise("TypeError")
                     ELSE TradingBotLogger(conf.v, lg.created + 1)
         IN  IF IsRaise(made)
             THEN [exc |-> made.v, logger |-> lg, ret |-> NoneV]
             ELSE [exc |-> "", ret |-> made,
                   logger |-> [instance |-> made, created |-> lg.created + 1]]
    ELSE [exc |-> "", logger |-> lg, ret |-> lg.instance]

\* get_logger_instance(config): [exc, logger, ret], logger the module state
\* afterwards.  A constructor that raises leaves _logger_instance None.
get_logger_instance(lg, conf) ==
    IF lg.instance = NoneV
    THEN LET made == IF ~Truthy(conf) THEN TradingBotLogger(<<>>, lg.created + 1)
                     ELSE IF ~IsDict(conf) THEN Raise("TypeError")
                     ELSE TradingBotLogger(conf.v, lg.created + 1)
         IN  IF IsRaise(made)
             THEN [exc |-> made.v, logger |-> lg, ret |-> NoneV]
             ELSE [exc |-> "", ret |-> made,
                   logger |-> [instance |-> made, created |-> lg.created + 1]]
    ELSE [exc |-> "", logger |-> lg, ret |-> lg.instance]

\* TradingBotLogger.log_system_event(event, details): json.dumps(details)
\* when details is truthy
log_system_event_raises(details) == Truthy(details) /\ ~Serialisable(details)

\* setup_logging(config): [exc, logger, events]
setup_logging(lg, conf) ==
    LET r == get_logger_instance(lg, conf)
    IN  IF r.exc # "" THEN [exc |-> r.exc, logger |-> r.logger, events |-> <<>>]
        ELSE IF log_system_event_raises(conf)
        THEN [exc |-> "TypeError", logger |-> r.logger, events |-> <<>>]
        ELSE [exc |-> "", logger |-> r.logger,
              events |-> <<Ev("log_system_event", conf)>>]

\* the convenience functions log_trade, log_error, log_api_request and
\* log_system_event: get_logger_instance() and the method named kind
log_event(lg, kind, a) ==
    LET r == get_logger_instance(lg, NoneV)
    IN  [exc |-> "", logger |-> r.logger, events |-> <<Ev(kind, a)>>]

LogKinds == {"log_trade", "log_error", "log_api_request", "log_system_event"}

GetLoggerInstance(conf) ==
    /\ pc = "logger"
    /\ LET r == get_logger_instance(logger, conf)
       IN  /\ logger' = r.logger
           /\ events' = <<>>
           /\ last' = Obs("get_logger_instance", r.exc, r.ret, <<>>, conf, <<>>)
    /\ UNCHANGED <<pc, defaults, config, environ, config_file, env_file, disk, ops, cli>>

SetupLogging(conf) ==
    /\ pc = "logger"
    /\ LET r == setup_logging(logger, conf)
       IN  /\ logger' = r.logger
           /\ events' = r.events
           /\ last' = Obs("setup_logging", r.exc, r.logger.instance, <<>>, conf, <<>>)
    /\ UNCHANGED <<pc, defaults, config, environ, config_file, env_file, disk, ops, cli>>

LogEvent(kind) ==
    /\ pc = "logger"
    /\ LET r == log_event(logger, kind, NoneV)
       IN  /\ logger' = r.logger
           /\ events' = r.events
           /\ last' = Obs(kind, r.exc, r.logger.instance, <<>>, NoneV, <<>>)
    /\ UNCHANGED <<pc, defaults, config, environ, config_file, env_file, disk, ops, cli>>

\* configurations handed to the logger
S_VERBOSE == <<"V","E","R","B","O","S","E">>
LoggerConfigs ==
    {NoneV, DictV(<<>>),
     DictV([log_level |-> StrV(S_DEBUG)]),
     DictV([log_level |-> StrV(S_ERROR), max_bytes |-> IntV(1)]),
     DictV([log_level |-> StrV(S_VERBOSE), backup_count |-> IntV(3)]),
     DictV([log_level |-> StrV(<<"d","e","b","u","g">>), backup_count |-> ObjV]),
     DictV([log_level |-> IntV(5)]),
     DictV([max_bytes |-> StrV(<<"x">>)]),
     DictV([bogus |-> IntV(1)]),
     ListV(<<IntV(1)>>)}

\* a process that has imported logger.py
InitLogger ==
    /\ pc = "logger"
    /\ defaults = _get_default_config
    /\ config = EmptyDict
    /\ environ = Env0
    /\ config_file = AbsentFile
    /\ env_file = AbsentFile
    /\ disk = NoFiles
    /\ ops = 0
    /\ last = Obs("", "", NoneV, <<>>, NoneV, <<>>)
    /\ cli = NoCli
    /\ logger = NoLogger
    /\ events = <<>>

NextLogger ==
    \/ \E c \in LoggerConfigs : GetLoggerInstance(c)
    \/ \E c \in LoggerConfigs : SetupLogging(c)
    \/ \E kind \in LogKinds : LogEvent(kind)

SpecLogger == InitLogger /\ [][NextLogger]_vars

LoggerOps == {"get_logger_instance", "setup_logging"} \cup LogKinds

\* C24: the logger is a lazily created singleton.  No step makes a second
\* TradingBotLogger; once an instance exists every call of
\* get_logger_instance, setup_logging and the log_* functions leaves it as it
\* is, whatever configuration the call passes, and the call that returns
\* hands out that instance.
C24_LoggerSingleton ==
    [][/\ logger'.created <= 1
       /\ logger.instance # NoneV => logger' = logger
       /\ (last'.op \in LoggerOps /\ last'.exc = "" /\ last'.op # "setup_logging")
            => last'.ret = logger'.instance /\ logger'.instance # NoneV]_vars

\* a configuration naming another level was passed to get_logger_instance
\* after the instance existed
C24_Witness ==
    /\ last.op = "get_logger_instance"
    /\ last.exc = ""
    /\ IsDict(last.arg)
    /\ "log_level" \in DOMAIN last.arg.v
    /\ last.arg.v["log_level"] = StrV(S_ERROR)
    /\ logger.instance.t = "logger"
    /\ logger.instance.v.log_level = 10

----------------------------------------------------------------------------
(* The bot (src/bot.py, class BasicBot).  The exchange is the other side   *)
(* of self.client: each request either returns or raises, which the        *)
(* actions draw as outcome.  A handler's result is [exc, ret, events], the *)
(* events being its log entries and its requests, in order.                *)

S_BUY  == <<"B","U","Y">>
S_SELL == <<"S","E","L","L">>

\* what a request to the exchange can end in: the answer, an exception of
\* python-binance, any other exception, or the user's interrupt
ExchangeOutcomes ==
    {"ok", "BinanceOrderException", "BinanceAPIException", "ConnectionError",
     "KeyboardInterrupt"}

\* the type each place_*_order sends: the stop-limit order is 'STOP'
OrderTypes == {"MARKET", "LIMIT", "STOP"}

\* order_params of place_market_order (lines 76-81), place_limit_order
\* (136-142) and place_stop_limit_order (202-209)
bot_order_params(type, symbol, side, quantity, price, stop_price) ==
    LET market == [symbol |-> symbol, side |-> side, type |-> StrV(type), quantity |-> quantity]
    IN  CASE type = "MARKET" -> DictV(market)
          [] type = "LIMIT" -> DictV(Put(market, "price", price))
          [] type = "STOP" -> DictV(Put(Put(market, "price", price), "stopPrice", stop_price))

\* order_details, built from the answer of the exchange, which repeats the
\* order and adds orderId and status (the timestamp is left out)
order_details(params) ==
    DictV(Put(Put(params.v, "orderId", IntV(1)), "status", StrV(<<"N","E","W">>)))

\* the try block of place_*_order
place_order_try(params, outcome) ==
    LET sent == <<Ev("log_api_request", params), Ev("log_system_event", params),
                  Ev("futures_create_order", params)>>
        details == order_details(params)
    IN  IF outcome = "ok"
        THEN [exc |-> "", ret |-> details,
              events |-> sent \o <<Ev("log_api_request", params), Ev("log_trade", details),
                                   Ev("log_system_event", details)>>]
        ELSE [exc |-> outcome, ret |-> NoneV, events |-> sent]

\* except clauses that name the exceptions of python-binance only
place_order_handlers_BinanceOnly ==
    << <<"BinanceOrderException", <<"log_api_request", "log_error">> >>,
       <<"BinanceAPIException", <<"log_api_request", "log_error">> >> >>

\* the except clauses of place_*_order, in order, with what each logs
\* before its raise
place_order_handlers ==
    << <<"BinanceOrderException", <<"log_api_request", "log_error">> >>,
       <<"BinanceAPIException", <<"log_api_request", "log_error">> >>,
       <<"Exception", <<"log_error">> >> >>

\* BasicBot.place_market_order, place_limit_order, place_stop_limit_order
place_order(params, outcome) ==
    LET r == place_order_try(params, outcome)
        h == Handler(place_order_handlers, r.exc)
    IN  IF r.exc = "" \/ h = 0 THEN r
        ELSE [exc |-> r.exc, ret |-> NoneV,
              events |-> r.events \o
                  [i \in 1..Len(place_order_handlers[h][2]) |->
                      Ev(place_order_handlers[h][2][i], Raise(r.exc))]]

\* BasicBot.get_account_info
get_account_info(outcome) ==
    LET sent == <<Ev("log_api_request", NoneV), Ev("futures_account", NoneV)>>
    IN  IF outcome = "ok"
        THEN [exc |-> "", ret |-> DictV(<<>>),
              events |-> sent \o <<Ev("log_api_request", NoneV), Ev("log_system_event", NoneV)>>]
        ELSE IF outcome = "BinanceAPIException"
        THEN [exc |-> outcome, ret |-> NoneV,
              events |-> sent \o <<Ev("log_api_request", Raise(outcome)), Ev("log_error", Raise(outcome))>>]
        ELSE IF IsInstance(outcome, "Exception")
        THEN [exc |-> outcome, ret |-> NoneV, events |-> sent \o <<Ev("log_error", Raise(outcome))>>]
        ELSE [exc |-> outcome, ret |-> NoneV, events |-> sent]

\* what futures_exchange_info ends in for get_symbol_info: the symbol is
\* listed, it is not, or the request raises
SymbolOutcomes == {"listed", "unlisted", "BinanceAPIException", "KeyboardInterrupt"}

\* BasicBot.get_symbol_info: the entry of the symbol, or None
get_symbol_info(symbol, outcome) ==
    LET sent == <<Ev("futures_exchange_info", symbol)>>
    IN  IF outcome = "listed" THEN [exc |-> "", ret |-> DictV([symbol |-> symbol]), events |-> sent]
        ELSE IF outcome = "unlisted" THEN [exc |-> "", ret |-> NoneV, events |-> sent]
        ELSE IF IsInstance(outcome, "Exception")
        THEN [exc |-> "", ret |-> NoneV, events |-> sent \o <<Ev("log_error", Raise(outcome))>>]
        ELSE [exc |-> outcome, ret |-> NoneV, events |-> sent]

\* BasicBot.validate_order_params(symbol, quantity, price), price None when
\* it is not given
validate_order_params(symbol, quantity, price, outcome) ==
    LET info == get_symbol_info(symbol, outcome)
        no(what) == [exc |-> "", ret |-> BoolV(FALSE),
                     events |-> info.events \o <<Ev("log_error", what)>>]
    IN  IF info.exc # "" THEN info
        ELSE IF ~Truthy(info.ret) THEN no(symbol)
        ELSE IF LeqZero(quantity) THEN no(quantity)
        ELSE IF price # NoneV /\ LeqZero(price) THEN no(price)
        ELSE [exc |-> "", ret |-> BoolV(TRUE), events |-> info.events]

\* the logger module after a handler that wrote a log entry
after_logging(lg, evs) ==
    IF \E i \in 1..Len(evs) : evs[i].e \in LogKinds
    THEN log_event(lg, "log_error", NoneV).logger
    ELSE lg

\* one of the three place_*_order methods, called on a constructed bot
PlaceOrder(name, params, outcome) ==
    /\ pc = "bot"
    /\ LET r == place_order(params, outcome)
       IN  /\ events' = r.events
           /\ logger' = after_logging(logger, r.events)
           /\ last' = Obs(name, r.exc, r.ret, <<>>, params, <<outcome>>)
    /\ UNCHANGED <<pc, defaults, config, environ, config_file, env_file, disk, ops, cli>>

PlaceMarketOrder(symbol, side, quantity, outcome) ==
    PlaceOrder("place_market_order",
               bot_order_params("MARKET", symbol, side, quantity, NoneV, NoneV), outcome)

PlaceLimitOrder(symbol, side, quantity, price, outcome) ==
    PlaceOrder("place_limit_order",
               bot_order_params("LIMIT", symbol, side, quantity, price, NoneV), outcome)

PlaceStopLimitOrder(symbol, side, quantity, price, stop_price, outcome) ==
    PlaceOrder("place_stop_limit_order",
               bot_order_params("STOP", symbol, side, quantity, price, stop_price), outcome)

GetAccountInfo(outcome) ==
    /\ pc = "bot"
    /\ LET r == get_account_info(outcome)
       IN  /\ events' = r.events
           /\ logger' = after_logging(logger, r.events)
           /\ last' = Obs("get_account_info", r.exc, r.ret, <<>>, NoneV, <<outcome>>)
    /\ UNCHANGED <<pc, defaults, config, environ, config_file, env_file, disk, ops, cli>>

ValidateOrderParams(symbol, quantity, price, outcome) ==
    /\ pc = "bot"
    /\ LET r == validate_order_params(symbol, quantity, price, outcome)
       IN  /\ events' = r.events
           /\ logger' = after_logging(logger, r.events)
           /\ last' = Obs("validate_order_params", r.exc, r.ret, <<>>, quantity, <<outcome>>)
    /\ UNCHANGED <<pc, defaults, config, environ, config_file, env_file, disk, ops, cli>>

\* arguments of the bot's methods
BotSymbols    == {StrV(S_BTCUSDT), StrV(S_ETHUSDT)}
BotSides      == {StrV(S_BUY), StrV(S_SELL)}
BotQuantities == {FloatV(1), NanV}
BotPrices     == {FloatV(10)}

\* a process holding a BasicBot whose constructor returned
InitBot ==
    /\ pc = "bot"
    /\ defaults = _get_default_config
    /\ config = EmptyDict
    /\ environ = Env0
    /\ config_file = AbsentFile
    /\ env_file = AbsentFile
    /\ disk = NoFiles
    /\ ops = 0
    /\ last = Obs("", "", NoneV, <<>>, NoneV, <<>>)
    /\ cli = [NoCli EXCEPT !.bot = TRUE]
    /\ logger = NoLogger
    /\ events = <<>>

NextBot ==
    \/ \E symbol \in BotSymbols, side \in BotSides, quantity \in BotQuantities,
          outcome \in ExchangeOutcomes :
            PlaceMarketOrder(symbol, side, quantity, outcome)
    \/ \E symbol \in BotSymbols, side \in BotSides, quantity \in BotQuantities,
          price \in BotPrices, outcome \in ExchangeOutcomes :
            PlaceLimitOrder(symbol, side, quantity, price, outcome)
    \/ \E symbol \in BotSymbols, side \in BotSides, quantity \in BotQuantities,
          price \in BotPrices, outcome \in ExchangeOutcomes :
            PlaceStopLimitOrder(symbol, side, quantity, price, FloatV(10), outcome)
    \/ \E outcome \in ExchangeOutcomes : GetAccountInfo(outcome)
    \/ \E symbol \in BotSymbols, quantity \in BotQuantities \cup {FloatV(0)},
          price \in BotPrices \cup {FloatV(-1000), NoneV}, outcome \in SymbolOutcomes :
            ValidateOrderParams(symbol, quantity, price, outcome)

SpecBot == InitBot /\ [][NextBot]_vars

PlaceOps == {"place_market_order", "place_limit_order", "place_stop_limit_order"}

\* the number of events named e
RECURSIVE Count(_, _)
Count(evs, e) ==
    IF evs = <<>> THEN 0
    ELSE (IF Head(evs).e = e THEN 1 ELSE 0) + Count(Tail(evs), e)

\* C23: an invocation of place_market_order, place_limit_order or
\* place_stop_limit_order sends exactly one futures_create_order request;
\* when the request raises an exception, that exception is logged as an
\* error and is the one the method raises, and no trade entry is written;
\* a trade entry is written, once, exactly when the request succeeded.
C23_OneCallPerOrder ==
    last.op \in PlaceOps =>
        /\ Count(events, "futures_create_order") = 1
        /\ Count(events, "log_trade") = (IF last.diag = <<"ok">> THEN 1 ELSE 0)
        /\ last.diag = <<"ok">> <=> last.exc = ""
        /\ (last.diag # <<"ok">> /\ IsInstance(last.diag[1], "Exception")) =>
             /\ last.exc = last.diag[1]
             /\ Count(events, "log_error") = 1
             /\ events[Len(events)] = Ev("log_error", Raise(last.exc))

\* a limit order whose request failed with an exception that is not one of
\* python-binance
C23_Witness ==
    /\ last.op = "place_limit_order"
    /\ last.exc = "ConnectionError"
    /\ Count(events, "log_trade") = 0

----------------------------------------------------------------------------
(* Input validation (src/utils.py) *)

\* a number in thousandths
Milli(x) ==
    CASE x.t = "int" -> 1000 * x.v
      [] x.t = "float" -> x.v
      [] x.t = "bool" -> IF x.v THEN 1000 ELSE 0

\* x < y for two numbers: every comparison with NaN is false
LessThan(x, y) ==
    IF x.t = "nan" \/ y.t = "nan" THEN FALSE
    ELSE IF x.t = "inf" THEN x.v < 0 /\ ~(y.t = "inf" /\ y.v < 0)
    ELSE IF y.t = "inf" THEN y.v > 0
    ELSE Milli(x) < Milli(y)

\* validate_input goes round its loop once more
Again == [t |-> "again", v |-> 0]

\* a validate_input that also turns away what is not a number
validate_input_pass_rejects_nan(user_input, input_type, min_value, max_value) ==
    LET s == strip(user_input)
        value == IF input_type = "float" THEN FloatOf(s) ELSE IntV(IntOf(s))
    IN  IF input_type = "str"
        THEN (IF s # <<>> THEN StrV(upper(s)) ELSE Again)
        ELSE IF input_type = "float" /\ ~IsFloatLiteral(s) THEN Again
        ELSE IF input_type = "int" /\ ~IsIntLiteral(s) THEN Again
        ELSE IF value.t = "nan" THEN Again
        ELSE IF min_value # NoneV /\ LessThan(value, min_value) THEN Again
        ELSE IF max_value # NoneV /\ LessThan(max_value, value) THEN Again
        ELSE value

\* one pass of the loop of validate_input on the line that input() returned:
\* the value it returns, or Again after a message.  int() and float() raise
\* ValueError, which the loop catches.
validate_input_pass(user_input, input_type, min_value, max_value) ==
    LET s == strip(user_input)
        value == IF input_type = "float" THEN FloatOf(s) ELSE IntV(IntOf(s))
    IN  IF input_type = "str"
        THEN (IF s # <<>> THEN StrV(upper(s)) ELSE Again)
        ELSE IF input_type = "float" /\ ~IsFloatLiteral(s) THEN Again
        ELSE IF input_type = "int" /\ ~IsIntLiteral(s) THEN Again
        ELSE IF min_value # NoneV /\ LessThan(value, min_value) THEN Again
        ELSE IF max_value # NoneV /\ LessThan(max_value, value) THEN Again
        ELSE value

\* validate_trading_pair(symbol): symbol.upper().strip()
validate_trading_pair(symbol) ==
    IF symbol.t # "str" THEN Raise("AttributeError") ELSE StrV(strip(upper(symbol.v)))

\* validate_order_side(side)
validate_order_side(side) ==
    LET u == strip(upper(side))
    IN  IF u \in {S_BUY, S_SELL} THEN StrV(u) ELSE Raise("ValueError")

----------------------------------------------------------------------------
(* The command line (src/cli.py, class TradingBotCLI, and main).  cli.pc   *)
(* is the position of the process: "main" before TradingBotCLI(), "setup", *)
(* "validate" and "connect" inside setup, "menu" at the prompt of the main *)
(* loop, "symbol" .. "place" inside an order handler, "account", "pause"   *)
(* at the prompt after a handler, "handler" at the prompt inside the       *)
(* except clause of the loop, "exited" when the process has ended.         *)
(* What input() gives is a line (a str), or EOFError, or the user's        *)
(* KeyboardInterrupt.                                                      *)

EndOfFile == Raise("EOFError")
Interrupt == Raise("KeyboardInterrupt")

P_log_level                == <<"l","o","g","_","l","e","v","e","l">>
P_max_log_size             == <<"m","a","x","_","l","o","g","_","s","i","z","e">>
P_log_backup_count         == <<"l","o","g","_","b","a","c","k","u","p","_","c","o","u","n","t">>
P_logging_max_log_size     == <<"l","o","g","g","i","n","g","."  >> \o P_max_log_size
P_logging_log_backup_count == <<"l","o","g","g","i","n","g","."  >> \o P_log_backup_count

\* where the process is after an exception: [pc, status, cause, logged]
Landed(at, status, cause, logged) ==
    [pc |-> at, status |-> status, cause |-> cause, logged |-> logged]

\* the except clause of main (lines 366-369)
main_handlers == << <<"Exception", "sys.exit(1)">> >>

\* an exception that leaves TradingBotCLI() or run(); code is the argument
\* of exit for a SystemExit.  The interpreter ends with the status of a
\* SystemExit, and with 130 on a KeyboardInterrupt nobody caught.
raise_in_main(exc, code) ==
    IF Handler(main_handlers, exc) # 0
    THEN Landed("exited", IntV(1), exc, <<Ev("log_error", Raise(exc))>>)
    ELSE Landed("exited", IF exc = "SystemExit" THEN IntV(code) ELSE IntV(130), exc, <<>>)

\* a main loop whose only except clause is the one for KeyboardInterrupt
run_handlers_KeyboardInterruptOnly == << <<"KeyboardInterrupt", "break">> >>

\* the except clauses of the loop of run (lines 352-359)
run_handlers == << <<"KeyboardInterrupt", "break">>, <<"Exception", "prompt">> >>

\* an exception raised inside the try block of the loop of run
raise_in_run(exc, code) ==
    LET h == Handler(run_handlers, exc)
    IN  IF h = 0 THEN raise_in_main(exc, code)
        ELSE IF run_handlers[h][2] = "break"
        THEN Landed("exited", IntV(0), exc, <<Ev("log_system_event", Raise(exc))>>)
        ELSE Landed("handler", NoneV, "", <<Ev("log_error", Raise(exc))>>)

\* the except clause of place_market_order, place_limit_order,
\* place_stop_limit_order and show_account_info
flow_handlers == << <<"Exception", "return">> >>

\* an exception raised inside one of these handlers
raise_in_flow(exc, code) ==
    IF Handler(flow_handlers, exc) # 0
    THEN Landed("pause", NoneV, "", <<Ev("log_error", Raise(exc))>>)
    ELSE raise_in_run(exc, code)

\* the resolver's variables, which the command line only reads
resolver_vars == <<pc, defaults, config, environ, config_file, env_file, disk, ops>>

\* the process moves to where l says
Land(l, inp) ==
    /\ cli' = [cli EXCEPT !.pc = l.pc, !.status = l.status, !.cause = l.cause, !.input = inp]
    /\ events' = events \o l.logged
    /\ logger' = after_logging(logger, l.logged)

\* the process moves on to position at, having done evs
Proceed(at, evs, inp) ==
    /\ cli' = [cli EXCEPT !.pc = at, !.input = inp]
    /\ events' = events \o evs
    /\ logger' = after_logging(logger, evs)

\* TradingBotCLI.__init__, line 18: ConfigManager()
CliInit ==
    /\ cli.pc = "main"
    /\ pc = "none"
    /\ LET r == load_config(_get_default_config, environ, config_file, env_file)
       IN  /\ pc' = IF r.exc = "" THEN "ready" ELSE "none"
           /\ config' = IF r.exc = "" THEN r.config ELSE EmptyDict
           /\ defaults' = IF r.exc = "" THEN r.defaults ELSE _get_default_config
           /\ environ' = r.environ
           /\ last' = Obs("__init__", r.exc, NoneV, <<>>, NoneV, <<>>)
           /\ IF r.exc = "" THEN Proceed("setup", <<>>, NoneV)
              ELSE Land(raise_in_main(r.exc, 0), NoneV)
    /\ UNCHANGED <<config_file, env_file, disk, ops>>

\* log_config of setup (lines 24-28)
log_config(tree) ==
    DictV([log_level |-> get(tree, P_log_level, StrV(S_INFO)).ret,
           max_bytes |-> get(tree, P_max_log_size, IntV(10485760)).ret,
           backup_count |-> get(tree, P_log_backup_count, IntV(5)).ret])

\* setup, lines 24-31: the logger is set up from log_config
CliSetupLogging ==
    /\ cli.pc = "setup"
    /\ LET conf == log_config(Tree(config, defaults))
           r == setup_logging(logger, conf)
       IN  /\ last' = Obs("setup_logging", r.exc, r.logger.instance, <<>>, conf, <<>>)
           /\ IF r.exc = ""
              THEN /\ cli' = [cli EXCEPT !.pc = "validate"]
                   /\ events' = r.events \o <<Ev("log_system_event", conf)>>
                   /\ logger' = r.logger
              ELSE LET l == raise_in_main(r.exc, 0)
                   IN  /\ cli' = [cli EXCEPT !.pc = l.pc, !.status = l.status, !.cause = l.cause]
                       /\ events' = l.logged
                       /\ logger' = after_logging(r.logger, l.logged)
    /\ UNCHANGED resolver_vars

\* a setup that goes on whatever validate_config returned
validation_failed_never(ret) == FALSE

\* line 34: if not self.config_manager.validate_config()
validation_failed(ret) == ~Truthy(ret)

\* setup, lines 33-37: a failed validation ends the process with sys.exit(1)
CliValidate ==
    /\ cli.pc = "validate"
    /\ LET r == validate_config(Tree(config, defaults))
       IN  /\ last' = Obs("validate_config", r.exc, r.ret, <<>>, NoneV, r.diag)
           /\ IF r.exc # "" THEN Land(raise_in_main(r.exc, 0), NoneV)
              ELSE IF validation_failed(r.ret)
              THEN Land(Landed("exited", IntV(1), "SystemExit", <<Ev("validate_config", r.ret)>>), NoneV)
              ELSE Proceed("connect", <<Ev("validate_config", r.ret)>>, NoneV)
    /\ UNCHANGED resolver_vars

\* what Client(...) ends in
ClientOutcomes == {"ok", "BinanceAPIException", "ConnectionError", "KeyboardInterrupt"}

\* BasicBot.__init__ (bot.py lines 14-40): the Client is constructed; an
\* exception of the constructor is logged and raised again
BasicBot(outcome) ==
    IF outcome = "ok"
    THEN [exc |-> "", events |-> <<Ev("Client", NoneV), Ev("log_system_event", NoneV)>>]
    ELSE IF IsInstance(outcome, "Exception")
    THEN [exc |-> outcome,
          events |-> <<Ev("Client", Raise(outcome)), Ev("log_error", Raise(outcome))>>]
    ELSE [exc |-> outcome, events |-> <<Ev("Client", Raise(outcome))>>]

\* the except clause of setup (lines 56-59)
setup_handlers == << <<"Exception", "sys.exit(1)">> >>

\* an exception raised inside the try block of setup
raise_in_setup(exc) ==
    IF Handler(setup_handlers, exc) # 0
    THEN Landed("exited", IntV(1), "SystemExit", <<Ev("log_error", Raise(exc))>>)
    ELSE raise_in_main(exc, 0)

\* setup, lines 39-59: the credentials are read, the bot made and the
\* connection tried with get_account_info
CliConnect(client, account) ==
    /\ cli.pc = "connect"
    /\ LET tree == Tree(config, defaults)
           b == BasicBot(client)
           a == get_account_info(account)
       IN  IF CredentialsMissing(tree)
           THEN /\ Land(raise_in_setup("ValueError"), NoneV)
                /\ last' = Obs("setup", "ValueError", NoneV, <<>>, NoneV, <<>>)
           ELSE IF b.exc # ""
           THEN LET l == raise_in_setup(b.exc)
                IN  /\ Land([l EXCEPT !.logged = b.events \o l.logged], NoneV)
                    /\ last' = Obs("setup", b.exc, NoneV, <<>>, NoneV, <<>>)
           ELSE IF a.exc # ""
           THEN LET l == raise_in_setup(a.exc)
                IN  /\ cli' = [cli EXCEPT !.pc = l.pc, !.status = l.status,
                                          !.cause = l.cause, !.bot = TRUE]
                    /\ events' = events \o b.events \o a.events \o l.logged
                    /\ logger' = after_logging(logger, b.events)
                    /\ last' = Obs("setup", a.exc, NoneV, <<>>, NoneV, <<>>)
           ELSE /\ cli' = [cli EXCEPT !.pc = "menu", !.bot = TRUE]
                /\ events' = events \o b.events \o a.events \o <<Ev("log_system_event", NoneV)>>
                /\ logger' = after_logging(logger, b.events)
                /\ last' = Obs("setup", "", NoneV, <<>>, NoneV, <<>>)
    /\ UNCHANGED resolver_vars

\* the order type of the handler that a menu choice starts
ChoiceOrderType(choice) ==
    CASE choice = <<"1">> -> "MARKET"
      [] choice = <<"2">> -> "LIMIT"
      [] choice = <<"3">> -> "STOP-LIMIT"
      [] OTHER -> ""

\* run, lines 326-349: the menu is shown and a choice read
MenuChoice(inp) ==
    /\ cli.pc = "menu"
    /\ last' = Obs("menu", IF IsRaise(inp) THEN inp.v ELSE "", NoneV, <<>>, inp, <<>>)
    /\ IF IsRaise(inp)
       THEN LET l == raise_in_run(inp.v, 0)
            IN  /\ cli' = [cli EXCEPT !.pc = l.pc, !.status = l.status, !.cause = l.cause,
                                      !.input = inp, !.order_type = "", !.order_params = <<>>]
                /\ events' = l.logged
                /\ logger' = after_logging(logger, l.logged)
       ELSE LET choice == strip(inp.v)
                selected == <<Ev("log_system_event", StrV(choice))>>
            IN  /\ logger' = after_logging(logger, selected)
                /\ IF ChoiceOrderType(choice) # ""
                   THEN /\ cli' = [cli EXCEPT !.pc = "symbol", !.input = inp,
                                              !.order_type = ChoiceOrderType(choice),
                                              !.order_params = <<>>]
                        /\ events' = selected \o <<Ev("log_system_event", NoneV)>>
                   ELSE IF choice = <<"4">>
                   THEN /\ cli' = [cli EXCEPT !.pc = "account", !.input = inp,
                                              !.order_type = "", !.order_params = <<>>]
                        /\ events' = selected
                   ELSE IF choice = <<"5">>
                   THEN /\ cli' = [cli EXCEPT !.pc = "exited", !.status = IntV(0),
                                              !.cause = "option 5", !.input = inp,
                                              !.order_type = "", !.order_params = <<>>]
                        /\ events' = selected \o <<Ev("log_system_event", NoneV)>>
                   ELSE /\ cli' = [cli EXCEPT !.pc = "pause", !.input = inp,
                                              !.order_type = "", !.order_params = <<>>]
                        /\ events' = selected \o <<Ev("log_system_event", StrV(choice))>>
    /\ UNCHANGED resolver_vars

\* get_order_inputs, lines 101-103: the trading pair, the default one of
\* the configuration when the line is empty
EnterSymbol(inp) ==
    /\ cli.pc = "symbol"
    /\ LET default_symbol == get(Tree(config, defaults), P_trading_default_symbol, StrV(S_BTCUSDT)).ret
           symbol == IF IsRaise(inp) THEN inp
                     ELSE validate_trading_pair(IF strip(inp.v) # <<>> THEN StrV(strip(inp.v))
                                                ELSE default_symbol)
       IN  /\ last' = Obs("validate_trading_pair", IF IsRaise(symbol) THEN symbol.v ELSE "",
                          IF IsRaise(symbol) THEN NoneV ELSE symbol, <<>>, inp, <<>>)
           /\ IF IsRaise(symbol)
              THEN Land(raise_in_flow(symbol.v, 0), inp)
              ELSE /\ cli' = [cli EXCEPT !.pc = "side", !.input = inp,
                                         !.order_params = Put(cli.order_params, "symbol", symbol)]
                   /\ UNCHANGED <<events, logger>>
    /\ UNCHANGED resolver_vars

\* get_order_inputs, lines 105-112: the side, asked for until it is valid
EnterSide(inp) ==
    /\ cli.pc = "side"
    /\ LET side == IF IsRaise(inp) THEN inp ELSE validate_order_side(strip(inp.v))
       IN  /\ last' = Obs("validate_order_side", IF IsRaise(side) THEN side.v ELSE "",
                          IF IsRaise(side) THEN NoneV ELSE side, <<>>, inp, <<>>)
           /\ IF IsRaise(inp)
              THEN Land(raise_in_flow(inp.v, 0), inp)
              ELSE IF IsRaise(side)
              THEN /\ cli' = [cli EXCEPT !.input = inp]
                   /\ UNCHANGED <<events, logger>>
              ELSE /\ cli' = [cli EXCEPT !.pc = "quantity", !.input = inp,
                                         !.order_params = Put(cli.order_params, "side", side)]
                   /\ UNCHANGED <<events, logger>>
    /\ UNCHANGED resolver_vars

\* the position after the number asked for at position at has been read
AfterNumber(at, order_type) ==
    CASE at = "quantity" -> IF order_type = "MARKET" THEN "confirm" ELSE "price"
      [] at = "price" -> IF order_type = "STOP-LIMIT" THEN "stop_price" ELSE "confirm"
      [] at = "stop_price" -> "confirm"

\* min_value of the validate_input call at position at (lines 115-141)
MinValueAt(at) == IF at = "quantity" THEN FloatV(1) ELSE FloatV(10)

\* get_order_inputs, lines 114-143: quantity, price and stop price, each
\* read by validate_input(prompt, float, min_value).  validate_input turns
\* a KeyboardInterrupt into exit(0) and lets an EOFError pass.
EnterNumber(at, inp) ==
    /\ cli.pc = at
    /\ LET value == IF IsRaise(inp) THEN inp
                    ELSE validate_input_pass(inp.v, "float", MinValueAt(at), NoneV)
       IN  /\ last' = Obs("validate_input", IF IsRaise(inp) THEN inp.v ELSE "",
                          IF IsRaise(inp) THEN NoneV ELSE value, <<>>, MinValueAt(at), <<>>)
           /\ IF inp = Interrupt
              THEN Land(raise_in_flow("SystemExit", 0), inp)
              ELSE IF IsRaise(inp)
              THEN Land(raise_in_flow(inp.v, 0), inp)
              ELSE IF value = Again
              THEN /\ cli' = [cli EXCEPT !.input = inp]
                   /\ UNCHANGED <<events, logger>>
              ELSE /\ cli' = [cli EXCEPT !.pc = AfterNumber(at, cli.order_type), !.input = inp,
                                         !.order_params = Put(cli.order_params, at, value)]
                   /\ UNCHANGED <<events, logger>>
    /\ UNCHANGED resolver_vars

\* confirm_order (lines 147-181): asked until the answer is y, yes, n or
\* no; the handler returns when the order is declined
ConfirmOrder(inp) ==
    /\ cli.pc = "confirm"
    /\ LET confirm == IF IsRaise(inp) THEN <<>> ELSE lower(strip(inp.v))
           yes == confirm \in {<<"y">>, <<"y","e","s">>}
           no == confirm \in {<<"n">>, <<"n","o">>}
       IN  /\ last' = Obs("confirm_order", IF IsRaise(inp) THEN inp.v ELSE "",
                          IF yes \/ no THEN BoolV(yes) ELSE NoneV, <<>>, inp, <<>>)
           /\ IF IsRaise(inp) THEN Land(raise_in_flow(inp.v, 0), inp)
              ELSE IF yes THEN Proceed("check", <<Ev("confirm_order", BoolV(TRUE))>>, inp)
              ELSE IF no
              THEN Proceed("pause", <<Ev("confirm_order", BoolV(FALSE)),
                                      Ev("log_system_event", NoneV)>>, inp)
              ELSE /\ cli' = [cli EXCEPT !.input = inp]
                   /\ UNCHANGED <<events, logger>>
    /\ UNCHANGED resolver_vars

\* the price the handler passes to validate_order_params: the market
\* handler passes none
PriceChecked(params) == IF "price" \in DOMAIN params THEN params["price"] ELSE NoneV

\* what validate_order_params was asked and what it answered
Checked(params, ret) ==
    Ev("validate_order_params",
       DictV([symbol |-> params["symbol"], quantity |-> params["quantity"],
              price |-> PriceChecked(params), ret |-> ret]))

\* a handler that places the order whatever validate_order_params returned
order_refused_never(ret) == FALSE

\* lines 196, 228, 261: if not self.bot.validate_order_params(...)
order_refused(ret) == ~Truthy(ret)

\* place_*_order, lines 195-202, 227-235, 260-268: the parameters are
\* checked with the bot; the handler returns when they are refused
CheckOrder(outcome) ==
    /\ cli.pc = "check"
    /\ LET params == cli.order_params
           r == validate_order_params(params["symbol"], params["quantity"],
                                      PriceChecked(params), outcome)
       IN  /\ last' = Obs("validate_order_params", r.exc, r.ret, <<>>, DictV(params), <<outcome>>)
           /\ IF r.exc # ""
              THEN LET l == raise_in_flow(r.exc, 0)
                   IN  Land([l EXCEPT !.logged = r.events \o l.logged], cli.input)
              ELSE IF order_refused(r.ret)
              THEN Proceed("pause", r.events \o <<Checked(params, r.ret),
                                                   Ev("log_system_event", DictV(params))>>, cli.input)
              ELSE Proceed("place", r.events \o <<Checked(params, r.ret)>>, cli.input)
    /\ UNCHANGED resolver_vars

\* the order the handler of order_type hands to the bot (lines 206-210,
\* 238-243, 271-277)
cli_order(order_type, params) ==
    CASE order_type = "MARKET" ->
            bot_order_params("MARKET", params["symbol"], params["side"], params["quantity"],
                             NoneV, NoneV)
      [] order_type = "LIMIT" ->
            bot_order_params("LIMIT", params["symbol"], params["side"], params["quantity"],
                             params["price"], NoneV)
      [] order_type = "STOP-LIMIT" ->
            bot_order_params("STOP", params["symbol"], params["side"], params["quantity"],
                             params["price"], params["stop_price"])

\* place_*_order, lines 204-212, 237-245, 270-279: the order is placed and
\* its summary printed
SendOrder(outcome) ==
    /\ cli.pc = "place"
    /\ LET r == place_order(cli_order(cli.order_type, cli.order_params), outcome)
       IN  /\ last' = Obs("place_order", r.exc, r.ret, <<>>, DictV(cli.order_params), <<outcome>>)
           /\ IF r.exc # ""
              THEN LET l == raise_in_flow(r.exc, 0)
                   IN  Land([l EXCEPT !.logged = r.events \o l.logged], cli.input)
              ELSE Proceed("pause", r.events, cli.input)
    /\ UNCHANGED resolver_vars

\* show_account_info (lines 285-319)
ShowAccountInfo(outcome) ==
    /\ cli.pc = "account"
    /\ LET r == get_account_info(outcome)
       IN  /\ last' = Obs("show_account_info", r.exc, r.ret, <<>>, NoneV, <<outcome>>)
           /\ IF r.exc # ""
              THEN LET l == raise_in_flow(r.exc, 0)
                   IN  Land([l EXCEPT !.logged = r.events \o l.logged], cli.input)
              ELSE Proceed("pause", r.events, cli.input)
    /\ UNCHANGED resolver_vars

\* run, line 350: input("Press Enter to continue...") inside the try block
Pause(inp) ==
    /\ cli.pc = "pause"
    /\ last' = Obs("pause", IF IsRaise(inp) THEN inp.v ELSE "", NoneV, <<>>, inp, <<>>)
    /\ IF IsRaise(inp)
       THEN Land(raise_in_run(inp.v, 0), inp)
       ELSE /\ cli' = [cli EXCEPT !.pc = "menu", !.input = inp]
            /\ events' = <<>>
            /\ UNCHANGED logger
    /\ UNCHANGED resolver_vars

\* run, line 359: input("Press Enter to continue...") inside the except
\* clause, where no try block surrounds it
HandlerPause(inp) ==
    /\ cli.pc = "handler"
    /\ last' = Obs("handler_pause", IF IsRaise(inp) THEN inp.v ELSE "", NoneV, <<>>, inp, <<>>)
    /\ IF IsRaise(inp)
       THEN Land(raise_in_main(inp.v, 0), inp)
       ELSE /\ cli' = [cli EXCEPT !.pc = "menu", !.input = inp]
            /\ events' = <<>>
            /\ UNCHANGED logger
    /\ UNCHANGED resolver_vars

\* the process environments, files and lines typed of the command line
EnvDebug == [BINANCE_API_KEY |-> V_abc, BINANCE_API_SECRET |-> V_abc, LOG_LEVEL |-> S_DEBUG]
Doc8 == DictV([log_level |-> IntV(5)])
CliEnvs == {Env0, Env1, EnvDebug}
CliConfigFiles == {AbsentFile, Doc8}

MenuInputs ==
    {StrV(<<"1">>), StrV(<<"2">>), StrV(<<" ","3">>), StrV(<<"4">>), StrV(<<"5">>),
     StrV(<<"9">>), EndOfFile, Interrupt}
SymbolInputs  == {StrV(<<>>), StrV(<<"e","t","h","u","s","d","t">>), EndOfFile, Interrupt}
SideInputs    == {StrV(<<"b","u","y">>), StrV(<<"S","E","L","L"," ">>), StrV(<<"x">>),
                  EndOfFile, Interrupt}
NumberInputs  == {StrV(<<"0",".","0","0","1">>), StrV(<<"0">>), StrV(<<"5">>),
                  StrV(<<"n","a","n">>), StrV(<<"a","b","c">>), EndOfFile, Interrupt}
ConfirmInputs == {StrV(<<"y">>), StrV(<<"N","o">>), StrV(<<"x">>), EndOfFile, Interrupt}
PauseInputs   == {StrV(<<>>), EndOfFile, Interrupt}
NumberPositions == {"quantity", "price", "stop_price"}

\* main() is entered: nothing has been constructed
InitCli ==
    /\ pc = "none"
    /\ defaults = _get_default_config
    /\ config = EmptyDict
    /\ environ \in CliEnvs
    /\ config_file \in CliConfigFiles
    /\ env_file = AbsentFile
    /\ disk = NoFiles
    /\ ops = 0
    /\ last = Obs("", "", NoneV, <<>>, NoneV, <<>>)
    /\ cli = [NoCli EXCEPT !.pc = "main"]
    /\ logger = NoLogger
    /\ events = <<>>

NextCli ==
    \/ CliInit
    \/ CliSetupLogging
    \/ CliValidate
    \/ \E client \in ClientOutcomes, account \in ExchangeOutcomes : CliConnect(client, account)
    \/ \E inp \in MenuInputs : MenuChoice(inp)
    \/ \E inp \in SymbolInputs : EnterSymbol(inp)
    \/ \E inp \in SideInputs : EnterSide(inp)
    \/ \E at \in NumberPositions, inp \in NumberInputs : EnterNumber(at, inp)
    \/ \E inp \in ConfirmInputs : ConfirmOrder(inp)
    \/ \E outcome \in SymbolOutcomes : CheckOrder(outcome)
    \/ \E outcome \in ExchangeOutcomes : SendOrder(outcome)
    \/ \E outcome \in ExchangeOutcomes : ShowAccountInfo(outcome)
    \/ \E inp \in PauseInputs : Pause(inp)
    \/ \E inp \in PauseInputs : HandlerPause(inp)

SpecCli == InitCli /\ [][NextCli]_vars

----------------------------------------------------------------------------
(* Properties of the command line *)

\* the requests to the exchange
ApiCalls == {"futures_account", "futures_exchange_info", "futures_create_order"}

Has(evs, ev) == \E i \in 1..Len(evs) : evs[i] = ev

\* C21: when validate_config returned False during startup, the process has
\* ended with status 1, no exchange client has been constructed and no
\* request has been sent to the exchange; and wherever a client was
\* constructed (or its construction tried), validate_config had returned
\* True before.
C21_ValidationGatesClient ==
    /\ Has(events, Ev("validate_config", BoolV(FALSE))) =>
        /\ cli.pc = "exited"
        /\ cli.status = IntV(1)
        /\ ~cli.bot
        /\ \A i \in 1..Len(events) : events[i].e \notin ApiCalls \cup {"Client"}
    /\ \A i \in 1..Len(events) :
        events[i].e = "Client" =>
            \E j \in 1..(i - 1) : events[j] = Ev("validate_config", BoolV(TRUE))
    /\ cli.bot => cli.pc \notin {"main", "setup", "validate"}

\* startup ended on a failed validation
C21_Witness ==
    /\ cli.pc = "exited"
    /\ Has(events, Ev("validate_config", BoolV(FALSE)))
    /\ last.op = "validate_config"

\* the check events[k] is one of the parameters of the order events[i]
\* that validate_order_params answered with True
ChecksOrder(check, order) ==
    /\ check.e = "validate_order_params"
    /\ check.a.v["ret"] = BoolV(TRUE)
    /\ check.a.v["symbol"] = order.a.v["symbol"]
    /\ check.a.v["quantity"] = order.a.v["quantity"]
    /\ check.a.v["price"] = PriceChecked(order.a.v)

\* C22: in the handlers of the command line an order is sent to the
\* exchange only after confirm_order returned True and, after that,
\* validate_order_params returned True for the symbol, quantity and price
\* of that order; a handler in which the user declined or the check failed
\* sends no order.
C22_OrderAfterConfirmAndCheck ==
    /\ \A i \in 1..Len(events) :
        events[i].e = "futures_create_order" =>
            \E j \in 1..(i - 1), k \in 1..(i - 1) :
                /\ j < k
                /\ events[j] = Ev("confirm_order", BoolV(TRUE))
                /\ ChecksOrder(events[k], events[i])
    /\ (\E i \in 1..Len(events) :
            \/ events[i] = Ev("confirm_order", BoolV(FALSE))
            \/ (events[i].e = "validate_order_params" /\ events[i].a.v["ret"] = BoolV(FALSE)))
        => \A i \in 1..Len(events) : events[i].e # "futures_create_order"

\* the stop-limit handler sent its order
C22_Witness ==
    /\ cli.order_type = "STOP-LIMIT"
    /\ cli.pc = "pause"
    /\ \E i \in 1..Len(events) : events[i].e = "futures_create_order"

\* x >= m for two numbers
AtLeast(x, m) == x.t \in {"int", "float", "inf"} /\ ~LessThan(x, m)

\* get_order_inputs has returned cli.order_params
InputsReturned == cli.pc \in {"confirm", "check", "place"}

\* C25: the parameters get_order_inputs returns have a side that is BUY or
\* SELL, a symbol that is upper-cased and not empty, a quantity of at least
\* 0.001, a price of at least 0.01 exactly for LIMIT and STOP-LIMIT orders
\* and a stop price of at least 0.01 exactly for STOP-LIMIT orders; and
\* what validate_input returns is at least its min_value, an input that is
\* turned away leaving the process at the same prompt.
C25_OrderInputs ==
    /\ InputsReturned =>
        LET params == cli.order_params
        IN  /\ params["side"] \in {StrV(S_BUY), StrV(S_SELL)}
            /\ params["symbol"].v # <<>>
            /\ params["symbol"].v = upper(params["symbol"].v)
            /\ AtLeast(params["quantity"], FloatV(1))
            /\ "price" \in DOMAIN params <=> cli.order_type \in {"LIMIT", "STOP-LIMIT"}
            /\ "price" \in DOMAIN params => AtLeast(params["price"], FloatV(10))
            /\ "stop_price" \in DOMAIN params <=> cli.order_type = "STOP-LIMIT"
            /\ "stop_price" \in DOMAIN params => AtLeast(params["stop_price"], FloatV(10))
    /\ (last.op = "validate_input" /\ last.exc = "") =>
        IF last.ret = Again THEN cli.pc \in NumberPositions
        ELSE AtLeast(last.ret, last.arg)

P_logging_enable_trade_logging ==
    <<"l","o","g","g","i","n","g",".","e","n","a","b","l","e","_","t","r","a","d","e","_","l","o","g","g","i","n","g">>
P_logging_enable_error_logging ==
    <<"l","o","g","g","i","n","g",".","e","n","a","b","l","e","_","e","r","r","o","r","_","l","o","g","g","i","n","g">>

\* ConfigManager.get_logging_config (config.py lines 292-300)
get_logging_config(tree) ==
    [log_level |-> get(tree, P_logging_log_level, StrV(S_INFO)).ret,
     max_log_size |-> get(tree, P_logging_max_log_size, IntV(10485760)).ret,
     log_backup_count |-> get(tree, P_logging_log_backup_count, IntV(5)).ret,
     enable_trade_logging |-> get(tree, P_logging_enable_trade_logging, BoolV(TRUE)).ret,
     enable_error_logging |-> get(tree, P_logging_enable_error_logging, BoolV(TRUE)).ret]

\* C28: the configuration setup hands to setup_logging is the logging
\* configuration of the resolved tree: its log_level is logging.log_level,
\* its max_bytes is logging.max_log_size and its backup_count is
\* logging.log_backup_count.
C28_LoggerConfigFromTree ==
    last.op = "setup_logging" =>
        LET resolved == get_logging_config(Tree(config, defaults))
        IN  /\ last.arg.v["log_level"] = resolved.log_level
            /\ last.arg.v["max_bytes"] = resolved.max_log_size
            /\ last.arg.v["backup_count"] = resolved.log_backup_count

\* the positions inside the handler of a menu choice, and inside the loop
HandlerPositions ==
    {"symbol", "side", "quantity", "price", "stop_price", "confirm", "check", "place", "account"}
LoopPositions == HandlerPositions \cup {"menu", "pause", "handler"}

\* C29: the main loop ends only on the choice 5, on a keyboard interrupt
\* (caught by the loop, turned into exit(0) by validate_input, or raised at
\* the prompt of the except clause), or when the prompt inside the except
\* clause fails; an exception raised while a menu choice is handled, and a
\* choice that is none of 1 to 5, leave the process inside the loop, and
\* the line typed at the prompt that follows brings the menu back.
C29_LoopEnds ==
    [][/\ (cli.pc \in LoopPositions /\ cli'.pc = "exited") =>
            \/ cli'.cause = "option 5"
            \/ cli'.cause = "KeyboardInterrupt"
            \/ (cli'.cause = "SystemExit" /\ cli'.input = Interrupt)
            \/ (cli.pc = "handler" /\ IsRaise(cli'.input))
       /\ (cli.pc \in HandlerPositions /\ last'.exc # "" /\ last'.exc \notin BaseOnly) =>
            cli'.pc \in LoopPositions
       /\ (cli.pc = "menu" /\ ~IsRaise(cli'.input)
             /\ strip(cli'.input.v) \notin {<<"1">>, <<"2">>, <<"3">>, <<"4">>, <<"5">>}) =>
            cli'.pc = "pause"
       /\ (cli.pc \in {"pause", "handler"} /\ ~IsRaise(cli'.input)) => cli'.pc = "menu"]_vars

\* the exchange refused an order and the process is at the prompt that
\* leads back to the menu
C29_Witness ==
    /\ cli.pc = "pause"
    /\ last.op = "place_order"
    /\ last.exc = "BinanceAPIException"

----------------------------------------------------------------------------
(* Further properties of the resolver *)

\* line i of the dotenv file is the last assignment to a table variable,
\* one the process environment defines already
OverwritesAt(lines, i) ==
    /\ IsAssignment(lines[i])
    /\ NameOf(lines[i]) # <<>>
    /\ Str(NameOf(lines[i])) \in TableVariables
    /\ Str(NameOf(lines[i])) \in DOMAIN environ
    /\ \A j \in (i + 1)..Len(lines) :
           IsAssignment(lines[j]) => NameOf(lines[j]) # NameOf(lines[i])

\* C26: a load with a dotenv file that assigns a table variable which the
\* process environment defines already replaces the value in the process
\* environment by the one of the file, returns, and leaves the coerced
\* value of the file at the variable's (section, key) of the tree.
C26_DotenvOverwrites ==
    [][(last'.op \in LoadOps /\ env_file.t = "lines") =>
          \A i \in 1..Len(env_file.v) :
              OverwritesAt(env_file.v, i) =>
                  LET name == Str(NameOf(env_file.v[i]))
                  IN  /\ name \in DOMAIN environ'
                      /\ environ'[name] = ValueOf(env_file.v[i])
                      /\ last'.exc = ""
                      /\ \A m \in 1..Len(env_mappings) :
                             env_mappings[m][1] = name =>
                                 At2(Tree(config', defaults'), env_mappings[m][2], env_mappings[m][3])
                                     = _convert_env_value(ValueOf(env_file.v[i]))]_vars


\* C27: a save_config(path) that reports an error leaves the file that
\* was at path before the call with the content it had
C27_FailedSaveKeepsFile ==
    [][(/\ last'.op = "save_config"
        /\ (last'.diag # <<>> \/ last'.exc # ""))
           => /\ config_file.t # "absent" => config_file' = config_file
              /\ disk.out.t # "absent" => disk' = disk]_vars


----------------------------------------------------------------------------
(* The frame of set and of the reading operations.  get returns the object *)
(* the tree holds, not a copy, and set stores the object it is given, so a *)
(* caller can make two entries of the tree name one mapping.               *)

\* len(x): [exc, ret]
len(x) ==
    CASE x.t \in {"str", "list"} -> [exc |-> "", ret |-> IntV(Len(x.v))]
      [] x.t = "dict" -> [exc |-> "", ret |-> IntV(Cardinality(DOMAIN x.v))]
      [] OTHER -> [exc |-> "TypeError", ret |-> NoneV]

\* ConfigManager.get_config_summary: [exc, ret]
get_config_summary(tree) ==
    LET limits == get_risk_limits(tree)
        count == len(get(tree, P_trading_supported_symbols,
                         ListV(<<StrV(S_BTCUSDT), StrV(S_ETHUSDT)>>)).ret)
    IN  IF count.exc # "" THEN [exc |-> count.exc, ret |-> NoneV]
        ELSE [exc |-> "",
              ret |-> DictV(
                [api |-> DictV(
                     [testnet |-> get(tree, P_api_testnet, BoolV(TRUE)).ret,
                      timeout |-> get(tree, P_api_timeout, NoneV).ret,
                      has_credentials |->
                          BoolV(/\ Truthy(get(tree, P_api_key, NoneV).ret)
                                /\ Truthy(get(tree, P_api_secret, NoneV).ret))]),
                 trading |-> DictV(
                     [default_symbol |-> get(tree, P_trading_default_symbol, StrV(S_BTCUSDT)).ret,
                      supported_symbols_count |-> count.ret]),
                 risk_limits |-> DictV(
                     [k \in {limits[i][1] : i \in 1..Len(limits)} |->
                         limits[CHOOSE i \in 1..Len(limits) : limits[i][1] = k][2]]),
                 logging |-> DictV(get_logging_config(tree))])]

GetConfigSummary ==
    /\ pc = "ready"
    /\ LET r == get_config_summary(Tree(config, defaults))
       IN  last' = Obs("get_config_summary", r.exc, r.ret, <<>>, NoneV, <<>>)
    /\ UNCHANGED <<pc, defaults, config, environ, config_file, env_file, disk, ops, cli, logger, events>>

P_backup         == <<"b","a","c","k","u","p">>
P_backup_timeout == <<"b","a","c","k","u","p",".","t","i","m","e","o","u","t">>

\* self.set('backup', self.get(section)): get returns the object stored at
\* the first segment, and set binds it to a second name.  The object is
\* one of the section objects of self.defaults as long as the entry has
\* not been replaced; a replaced entry is stored by value.
SetToGet(section) ==
    /\ pc = "ready"
    /\ LET value == IF Str(section) \in DOMAIN config THEN config[Str(section)] ELSE NoneV
           r == set(config, defaults, P_backup, value)
       IN  /\ Str(P_backup) \notin DOMAIN config
           /\ config' = r.config
           /\ defaults' = r.defaults
           /\ last' = Obs("set", r.exc, NoneV, P_backup,
                          get(Tree(config, defaults), section, NoneV).ret, <<>>)
    /\ UNCHANGED <<pc, environ, config_file, env_file, disk, ops, cli, logger, events>>

FrameEnvs == {Env0, Env2}
FrameConfigFiles == {AbsentFile, Doc5}
FrameSections == {P_api, P_trading}
FrameSetPaths == {P_api_timeout, P_api_key, P_api, P_trading_supported_symbols,
                  P_a_b, P_api_testnet_x, P_backup_timeout}
FrameSetValues == {IntV(7), StrV(V_abc)}
FramePaths == {P_api_timeout, P_api_key, P_api, P_api_testnet, P_trading_default_symbol,
               P_trading_supported_symbols, P_backup, P_backup_timeout, P_ui, P_a_b}

InitFrame == InitWith(FrameEnvs, FrameConfigFiles, {AbsentFile})

NextFrame ==
    \/ Construct
    \/ \E path \in FrameSetPaths, value \in FrameSetValues : Set(path, value)
    \/ \E section \in FrameSections : SetToGet(section)
    \/ \E path \in FramePaths : Get(path, NoneV)
    \/ ValidateConfig
    \/ CreateSafeConfig
    \/ GetConfigSummary

SpecFrame == InitFrame /\ [][NextFrame]_vars

\* the segments of a are the first segments of b
IsPrefix(a, b) ==
    /\ Len(a) <= Len(b)
    /\ SubSeq(b, 1, Len(a)) = a

\* q is neither a prefix of path nor extends it
Unrelated(q, path) ==
    LET a == split(q, ".")
        b == split(path, ".")
    IN  ~IsPrefix(a, b) /\ ~IsPrefix(b, a)

ReadOps == {"get", "validate_config", "_create_safe_config", "get_config_summary"}

\* C30: set(path, value) leaves get(q) as it was for every q that is
\* neither a prefix of path nor extends it, and get, validate_config,
\* _create_safe_config and get_config_summary leave the tree unchanged
C30_Frame ==
    [][/\ last'.op = "set" =>
              \A q \in FramePaths :
                  Unrelated(q, last'.path) =>
                      get(Tree(config', defaults'), q, NoneV)
                          = get(Tree(config, defaults), q, NoneV)
       /\ last'.op \in ReadOps =>
              /\ config' = config
              /\ defaults' = defaults]_vars

====
